---------------------------- MODULE Spec2Model ----------------------------
(***************************************************************************)
(* State-machine model of the quest-contract repository.                   *)
(*                                                                         *)
(* Six contracts are modelled: the escrow contract                         *)
(* (src/contracts/escrow/src/lib.rs), the bounty contract                  *)
(* (src/contracts/bounty/src/lib.rs), the multiplayer match contract       *)
(* (src/contracts/multiplayer_match/src/lib.rs), the reward vault          *)
(* (src/contracts/reward_vault/src/lib.rs), the achievement collection     *)
(* (src/contracts/achievement_collection/src/lib.rs) and the achievement   *)
(* NFT (src/contracts/achievement_nft, of which the repository holds the   *)
(* tests only: its entry points follow section 4.4 of the specification    *)
(* and the calls of src/contracts/achievement_nft/src/test.rs).  Each has  *)
(* its own storage and its own token ledger; they share the ledger clock.  *)
(*                                                                         *)
(* Every entry point is one atomic call.  A call is modelled by an outcome *)
(* operator named after the handler: it runs the handler's checks in       *)
(* source order and yields the error together with the storage and the     *)
(* token balances the call commits.  A call that returns an error, panics, *)
(* or whose token transfer traps ("TransferTrap"), commits nothing: the    *)
(* host rolls it back.  The action of an entry point applies the outcome   *)
(* of the call for some choice of arguments; a rejected call is a step     *)
(* that changes nothing.                                                   *)
(*                                                                         *)
(* Spec         the escrow contract with up to MaxEscrows escrows created  *)
(*              from CreateArgs.                                           *)
(* SharedSpec   the escrow contract with up to MaxSharedEscrows escrows    *)
(*              created from SharedCreateArgs, all held in the one token   *)
(*              balance of the contract.                                   *)
(* MajoritySpec the escrow contract with up to MaxEscrows escrows released *)
(*              by a majority, created from MajorityCreateArgs.            *)
(* BountySpec   the bounty contract with up to MaxBounties bounties.       *)
(* MatchSpec    the match contract with up to MaxMatches matches.          *)
(* PayoutSpec   the escrow and the match contract, one of them in use.     *)
(* VaultSpec    the reward vault with the positions of two owners.         *)
(* CollectionSpec the achievement collection with up to MaxSets sets.      *)
(* NftSpec      the achievement NFT with up to MaxTokens tokens minted.    *)
(***************************************************************************)
EXTENDS Integers, Sequences, FiniteSets, TLC

VARIABLES
    escrows,        \* persistent storage, DataKey::Escrow(id) -> EscrowData
    nextEscrowId,   \* persistent storage, DataKey::NextEscrowId: <<>> when unset, else <<n>>
    balance,        \* token ledger: address -> balance (the escrow token)
    paidOut,        \* history: escrow id -> tokens transferred out of custody for that escrow
    now,            \* env.ledger().timestamp()
    bounties,       \* bounty contract, instance storage, DataKey::Bounty(id) -> Bounty
    bountyCount,    \* bounty contract, DataKey::BountyCount, read with unwrap_or(0)
    admin,          \* bounty contract, DataKey::Admin: <<>> when unset, else <<address>>
    bountyBalance,  \* token ledger of the token the bounties are funded in
    matches,        \* match contract, persistent storage, DataKey::Match(id) -> MatchData
    matchCounter,   \* match contract, DataKey::MatchCounter, read with unwrap_or(0)
    matchBalance,   \* token ledger of the token the entry fees are paid in
    vaultConfig,    \* reward vault, persistent storage, DataKey::Config: <<>> when unset, else <<VaultConfig>>
    vaults,         \* reward vault, persistent storage, DataKey::Vault(owner) -> VaultPosition
    vaultBalance,   \* token ledger of the token the vault holds
    collection,     \* achievement collection, instance storage: one field per DataKey
    nft             \* achievement NFT, storage: admin, counters, tokens, collections

escrowVars == <<escrows, nextEscrowId, balance, paidOut>>

bountyVars == <<bounties, bountyCount, admin, bountyBalance>>

matchVars == <<matches, matchCounter, matchBalance>>

vaultVars == <<vaultConfig, vaults, vaultBalance>>

collectionVars == <<collection>>

nftVars == <<nft>>

vars == <<escrows, nextEscrowId, balance, paidOut, now,
          bounties, bountyCount, admin, bountyBalance,
          matches, matchCounter, matchBalance,
          vaultConfig, vaults, vaultBalance, collection, nft>>

---------------------------------------------------------------------------
(* Bounds of the model *)

MaxEscrows == 1         \* escrows created under Spec
MaxSharedEscrows == 2   \* escrows created under SharedSpec (one contract balance, several escrows)
MaxTime == 1            \* the ledger timestamp runs over 0..MaxTime
MaxBounties == 2        \* bounties created under BountySpec
MaxMatches == 1         \* matches created under MatchSpec and PayoutSpec
MaxVaultTime == 2       \* the ledger timestamp runs over 0..MaxVaultTime under VaultSpec
MaxSets == 2            \* sets created under CollectionSpec
MaxTokens == 3          \* tokens minted under NftSpec

---------------------------------------------------------------------------
(* Identities and call arguments *)

CONTRACT == "contract"
NoAddress == "none"
Address == {"p1", "p2", "p3", "arb"}

All == <<"AllPartiesApprove">>
Majority == <<"MajorityApprove">>
ByArbitrator == <<"ArbitratorApprove">>

\* (parties, amounts, conditions, arbitrator) arguments of create_escrow: two
\* distinct parties with and without an arbitrator, three distinct parties under
\* the unanimous and the majority condition; a zero and a negative obligation; a
\* repeated party; empty lists and lists of unequal length
CreateArgs ==
    { <<  <<"p1", "p2">>,       <<1, 2>>,    All,          NoAddress >>,
      <<  <<"p1", "p2">>,       <<1, 2>>,    All,          "arb"     >>,
      <<  <<"p1", "p2">>,       <<1, 2>>,    ByArbitrator, "arb"     >>,
      <<  <<"p1", "p2", "p3">>, <<1, 2, 2>>, All,          NoAddress >>,
      <<  <<"p1", "p2", "p3">>, <<1, 2, 2>>, Majority,     NoAddress >>,
      <<  <<"p1", "p2">>,       <<0, 1>>,    All,          NoAddress >>,
      <<  <<"p1", "p2">>,       <<-1, 1>>,   All,          NoAddress >>,
      <<  <<"p1", "p1">>,       <<1, 2>>,    All,          NoAddress >>,
      <<  <<>>,                 <<>>,        All,          NoAddress >>,
      <<  <<"p1", "p2">>,       <<1, 2, 2>>, All,          NoAddress >> }

\* the arguments of the escrows that share the contract balance under SharedSpec
SharedCreateArgs ==
    { <<  <<"p1", "p2">>,       <<1, 2>>,    All,          NoAddress >>,
      <<  <<"p1", "p2">>,       <<1, 2>>,    All,          "arb"     >>,
      <<  <<>>,                 <<>>,        All,          NoAddress >> }

\* the arguments of the escrows released by a majority under MajoritySpec
MajorityCreateArgs ==
    { <<  <<"p1", "p2">>,       <<1, 2>>,    Majority,     NoAddress >>,
      <<  <<"p1", "p2">>,       <<1, 2>>,    Majority,     "arb"     >>,
      <<  <<"p1", "p2", "p3">>, <<1, 2, 2>>, Majority,     NoAddress >> }

TimeoutValues == {1}

Creators == {"arb"}

NoAmount == [some |-> FALSE, val |-> 0]
SomeAmount(n) == [some |-> TRUE, val |-> n]
PartialAmounts == {NoAmount} \cup {SomeAmount(n) : n \in {-2, 2, 3, 6}}
DepositAmounts == -1..2

Resolutions == {"Release", "Refund"}

\* every address starts with enough tokens to meet its obligations in every escrow
InitialBalance == 2 * (MaxEscrows + MaxSharedEscrows)

\* the bounty contract's own address
BOUNTY == "bounty"

\* arguments of the bounty contract's calls: the creator funds bounties of 2 tokens
\* (and tries 0 and -1) that expire Duration after creation
Admins == {"arb"}
BountyCreators == {"p1", "p3"}
Solvers == {"p2"}
BountyAmounts == {-1, 0, 2}
Durations == {0}
SolverPayouts == -1..3
Offsets == 0..(MaxBounties + 1)
Limits == 0..(MaxBounties + 2)

\* the match contract's own address
MATCH == "match"

\* arguments of the match contract's calls.  (entry_fee, max_players, min_players,
\* join_duration, submission_duration, reveal_duration) of create_match: a match
\* of three players paying 1 token each, a negative entry fee, and a match
\* with max_players 0
MatchCreators == {"p1"}
MatchArgs ==
    { << 1, 3, 3, 0, 0, 0 >>,
      << -1, 3, 3, 0, 0, 0 >>,
      << 1, 0, 3, 0, 0, 0 >> }
Joiners == {"p1", "p2", "p3"}
Scores == {1, 2}
Secrets == {"s"}
Validities == BOOLEAN

\* sha256 over (player, score, secret), taken to be free of collisions
Hash(player, score, secret) == <<player, score, secret>>

\* the commitments a player submits: to one of the scores, under the secret
CommitHashes(player) == {Hash(player, score, secret) : score \in Scores, secret \in Secrets}

\* every address can pay the entry fee of every match
MatchInitialBalance == MaxMatches

\* p3 holds no tokens, so that a creation whose transfer traps is among the
\* calls; every other address can fund every bounty
BountyInitialBalance(a) == IF a = "p3" THEN 0 ELSE 2 * MaxBounties

\* the reward vault's own address
VAULT == "vault"

\* arguments of the reward vault's calls.  (early_withdraw_penalty_bps,
\* emergency_penalty_bps, lock_periods, bonus_bps) of initialize: the options of
\* the contract's tests for WEEK and MONTH, scaled to 1 and 2; the
\* largest early penalty with no emergency penalty; a penalty above 10000 bps,
\* no option, lists of unequal length and a period of 0
VaultAdmins == {"arb"}
VaultInitArgs ==
    { << 1000,  2500,  <<1, 2>>, <<500, 1200>> >>,
      << 10000, 0,     <<2>>,    <<1200>>      >>,
      << 10001, 0,     <<1>>,    <<500>>       >>,
      << 0,     10001, <<1>>,    <<500>>       >>,
      << 1000,  2500,  <<>>,     <<>>          >>,
      << 1000,  2500,  <<1, 2>>, <<500>>       >>,
      << 1000,  2500,  <<0>>,    <<500>>       >> }
\* (owner, amount) of deposit: each owner deposits all the tokens it was minted,
\* and tries 0 and a negative amount
VaultDepositArgs == { <<"p1", 10000000>>, <<"p2", 15>>, <<"p1", 0>>, <<"p2", -1>> }
Beneficiaries == {"p1", "p3"}
FundAmounts == {0, 1200000}
LockPeriods == 0..3
Enabled == BOOLEAN

\* the tokens minted: 10,000,000 to the user of the contract's tests, 15 to a
\* second owner, and to the admin the bonus of 10,000,000 locked for a MONTH
VaultInitialBalance(a) ==
    CASE a = "p1" -> 10000000
      [] a = "p2" -> 15
      [] a = "arb" -> 1200000
      [] OTHER -> 0

\* arguments of the achievement collection's calls.  (achievements, limited_cap,
\* bonus_points) of create_set: a set of two achievements without a cap, as in
\* the contract's test_set_and_progress; the same with a cap of 1 per achievement,
\* as in test_limited_cap_and_trading; a capped set of one achievement; an empty
\* list and a repeated achievement
NoCap == [some |-> FALSE, val |-> 0]
SomeCap(n) == [some |-> TRUE, val |-> n]
SetArgs ==
    { << <<1, 2>>, NoCap,      100 >>,
      << <<1, 2>>, SomeCap(1), 50  >>,
      << <<3>>,    SomeCap(1), 50  >>,
      << <<>>,     NoCap,      100 >>,
      << <<3, 3>>, NoCap,      100 >> }
SetNames == {"Starter Set"}
Rarities == {"Common"}
\* three players trade progress; two of them record achievements
Players == {"p1", "p2", "p3"}
Claimers == {"p1", "p2"}
AchievementIds == 1..3

\* instance storage of the achievement collection before any call
EmptyStorage ==
    [ nextSetId |-> <<>>,   \* DataKey::NextSetId: <<>> when unset, else <<n>>
      sets |-> <<>>,        \* DataKey::Set(id) -> Set
      achToSet |-> <<>>,    \* DataKey::AchToSet(achievement) -> set id
      progress |-> <<>>,    \* DataKey::PlayerProgress(player, set) -> Vec<u32>
      achCount |-> <<>>,    \* DataKey::AchCount(achievement) -> u32
      bonus |-> <<>>,       \* DataKey::Bonus(player) -> i128
      completed |-> <<>> ]  \* DataKey::Completed(player, set) -> bool

\* arguments of the achievement NFT's calls: the admin, three users that hold,
\* send and receive tokens (user_a, user_b and the hacker of the contract's
\* tests), and the puzzle and metadata of test_nft_lifecycle
NftAdmins == {"arb"}
NftUsers == {"p1", "p2", "p3"}
PuzzleIds == {101}
Metadata == {"Master Puzzler"}

\* storage of the achievement NFT before any call
EmptyNft ==
    [ admin |-> <<>>,         \* the admin: <<>> when unset, else <<address>>
      nextTokenId |-> 1,      \* the id the next mint assigns
      totalSupply |-> 0,      \* total_supply()
      achievements |-> <<>>,  \* token id -> Achievement (owner, puzzle_id, metadata)
      collections |-> <<>> ]  \* owner -> Vec<u32> of the token ids it holds

---------------------------------------------------------------------------
(* Pure helpers *)

RECURSIVE SumSeq(_)
SumSeq(s) == IF s = <<>> THEN 0 ELSE Head(s) + SumSeq(Tail(s))

\* i128 division truncates toward zero
TruncDiv(a, b) == IF a >= 0 THEN a \div b ELSE -((-a) \div b)

Contains(s, x) == \E i \in 1..Len(s) : s[i] = x

\* Iterator::position: index of the first match
Position(s, x) == CHOOSE i \in 1..Len(s) : s[i] = x /\ \A j \in 1..(i-1) : s[j] # x

\* token::Client::transfer: traps on a negative amount or an insufficient balance
CanTransfer(bal, from, amount) == amount >= 0 /\ bal[from] >= amount

Transfer(bal, from, to, amount) ==
    LET debited == [bal EXCEPT ![from] = @ - amount]
    IN  [debited EXCEPT ![to] = @ + amount]

---------------------------------------------------------------------------
(* Call outcomes *)

Outcome(e, es, nid, bal, po) ==
    [err |-> e, escrows |-> es, nextEscrowId |-> nid, balance |-> bal, paidOut |-> po]

Rejected(e) == Outcome(e, escrows, nextEscrowId, balance, paidOut)

get_next_escrow_id == IF nextEscrowId = <<>> THEN 1 ELSE nextEscrowId[1]

create_escrow(creator, parties, amounts, conditions, arbitrator, timeout) ==
    IF parties = <<>> \/ amounts = <<>> \/ Len(parties) # Len(amounts)
    THEN Rejected("InvalidParties")
    ELSE LET escrow_id == get_next_escrow_id
             escrow == [ id |-> escrow_id,
                         creator |-> creator,
                         parties |-> parties,
                         amounts |-> amounts,
                         deposited |-> [i \in 1..Len(parties) |-> 0],
                         approvals |-> [i \in 1..Len(parties) |-> FALSE],
                         state |-> "Created",
                         conditions |-> conditions,
                         arbitrator |-> arbitrator,
                         timeout |-> now + timeout,
                         created_at |-> now ]
         IN  Outcome("Ok",
                     (escrow_id :> escrow) @@ escrows,
                     <<escrow_id + 1>>,
                     balance,
                     (escrow_id :> 0) @@ paidOut)

deposit(depositor, escrow_id, amount) ==
    IF escrow_id \notin DOMAIN escrows THEN Rejected("EscrowNotFound")
    ELSE LET escrow == escrows[escrow_id] IN
    IF escrow.state # "Created" THEN Rejected("InvalidState")
    ELSE IF ~Contains(escrow.parties, depositor) THEN Rejected("NotParty")
    ELSE LET party_idx == Position(escrow.parties, depositor) IN
    IF escrow.amounts[party_idx] # amount THEN Rejected("AmountMismatch")
    ELSE IF escrow.deposited[party_idx] > 0 THEN Rejected("AlreadyDeposited")
    ELSE IF ~CanTransfer(balance, depositor, amount) THEN Rejected("TransferTrap")
    ELSE LET deposited == [escrow.deposited EXCEPT ![party_idx] = amount]
             activated == \A i \in 1..Len(deposited) : deposited[i] > 0
             updated == [escrow EXCEPT !.deposited = deposited,
                                       !.state = IF activated THEN "Active" ELSE @]
         IN  Outcome("Ok",
                     [escrows EXCEPT ![escrow_id] = updated],
                     nextEscrowId,
                     Transfer(balance, depositor, CONTRACT, amount),
                     paidOut)

\* check_release_conditions with AllPartiesApprove read as "some party approved"
check_release_conditions_AnyApproval(escrow) ==
    \E c \in 1..Len(escrow.conditions) :
        CASE escrow.conditions[c] = "AllPartiesApprove" ->
                \E i \in 1..Len(escrow.approvals) : escrow.approvals[i]
          [] escrow.conditions[c] = "MajorityApprove" ->
                LET approved_count ==
                        Cardinality({i \in 1..Len(escrow.approvals) : escrow.approvals[i]})
                IN  approved_count > Len(escrow.parties) \div 2
          [] OTHER -> FALSE

\* check_release_conditions with MajorityApprove read as "at least half approved"
check_release_conditions_HalfApproves(escrow) ==
    \E c \in 1..Len(escrow.conditions) :
        CASE escrow.conditions[c] = "AllPartiesApprove" ->
                \A i \in 1..Len(escrow.approvals) : escrow.approvals[i]
          [] escrow.conditions[c] = "MajorityApprove" ->
                LET approved_count ==
                        Cardinality({i \in 1..Len(escrow.approvals) : escrow.approvals[i]})
                IN  approved_count >= Len(escrow.parties) \div 2
          [] OTHER -> FALSE

check_release_conditions(escrow) ==
    \E c \in 1..Len(escrow.conditions) :
        CASE escrow.conditions[c] = "AllPartiesApprove" ->
                \A i \in 1..Len(escrow.approvals) : escrow.approvals[i]
          [] escrow.conditions[c] = "MajorityApprove" ->
                LET approved_count ==
                        Cardinality({i \in 1..Len(escrow.approvals) : escrow.approvals[i]})
                IN  approved_count > Len(escrow.parties) \div 2
          [] OTHER -> FALSE

\* can_release that also lets every listed party release
can_release_AnyParty(escrow, releaser) ==
    \/ escrow.arbitrator # NoAddress /\ releaser = escrow.arbitrator
    \/ Contains(escrow.parties, releaser)
    \/ check_release_conditions(escrow)

can_release(escrow, releaser) ==
    \/ escrow.arbitrator # NoAddress /\ releaser = escrow.arbitrator
    \/ check_release_conditions(escrow)

\* auto_release: reloads the stored escrow and marks it Released; no token transfer
auto_release(es, escrow_id) ==
    [es EXCEPT ![escrow_id].state = "Released"]

\* distribute_funds: per_party to every party in list order; the result of the
\* transfers made to parties[1..k], ok = FALSE when one of them traps
RECURSIVE DistributeTo(_, _, _, _)
DistributeTo(bal, parties, per_party, k) ==
    IF k = 0 THEN [ok |-> TRUE, balance |-> bal]
    ELSE LET before == DistributeTo(bal, parties, per_party, k - 1) IN
         IF ~before.ok \/ ~CanTransfer(before.balance, CONTRACT, per_party)
         THEN [ok |-> FALSE, balance |-> bal]
         ELSE [ok |-> TRUE,
               balance |-> Transfer(before.balance, CONTRACT, parties[k], per_party)]

PerParty(escrow, amount) == TruncDiv(amount, Len(escrow.parties))

distribute_funds(bal, escrow, amount) ==
    DistributeTo(bal, escrow.parties, PerParty(escrow, amount), Len(escrow.parties))

\* refund_all: deposited[i] back to parties[i] when it is positive
RECURSIVE RefundTo(_, _, _)
RefundTo(bal, escrow, k) ==
    IF k = 0 THEN [ok |-> TRUE, balance |-> bal]
    ELSE LET before == RefundTo(bal, escrow, k - 1) IN
         IF ~before.ok THEN before
         ELSE IF escrow.deposited[k] > 0
         THEN IF ~CanTransfer(before.balance, CONTRACT, escrow.deposited[k])
              THEN [ok |-> FALSE, balance |-> bal]
              ELSE [ok |-> TRUE,
                    balance |-> Transfer(before.balance, CONTRACT, escrow.parties[k],
                                         escrow.deposited[k])]
         ELSE before

refund_all(bal, escrow) == RefundTo(bal, escrow, Len(escrow.parties))

\* tokens a successful call moved out of the contract
Spent(bal) == balance[CONTRACT] - bal[CONTRACT]

approve(approver, escrow_id) ==
    IF escrow_id \notin DOMAIN escrows THEN Rejected("EscrowNotFound")
    ELSE LET escrow == escrows[escrow_id] IN
    IF escrow.state # "Active" THEN Rejected("InvalidState")
    ELSE IF ~Contains(escrow.parties, approver) THEN Rejected("NotParty")
    ELSE LET party_idx == Position(escrow.parties, approver)
             updated == [escrow EXCEPT !.approvals[party_idx] = TRUE]
             stored == [escrows EXCEPT ![escrow_id] = updated]
         IN  Outcome("Ok",
                     IF check_release_conditions(updated)
                     THEN auto_release(stored, escrow_id)
                     ELSE stored,
                     nextEscrowId, balance, paidOut)

release(releaser, escrow_id, partial_amount) ==
    IF escrow_id \notin DOMAIN escrows THEN Rejected("EscrowNotFound")
    ELSE LET escrow == escrows[escrow_id] IN
    IF escrow.state # "Active" THEN Rejected("InvalidState")
    ELSE IF ~can_release(escrow, releaser) THEN Rejected("Unauthorized")
    ELSE LET total_amount == SumSeq(escrow.amounts)
             release_amount == IF partial_amount.some THEN partial_amount.val
                               ELSE total_amount
         IN
    IF release_amount > total_amount THEN Rejected("AmountMismatch")
    ELSE LET paid == distribute_funds(balance, escrow, release_amount) IN
    IF ~paid.ok THEN Rejected("TransferTrap")
    ELSE Outcome("Ok",
                 IF release_amount = total_amount
                 THEN [escrows EXCEPT ![escrow_id].state = "Released"]
                 ELSE escrows,
                 nextEscrowId,
                 paid.balance,
                 [paidOut EXCEPT ![escrow_id] = @ + Spent(paid.balance)])

\* dispute without the check that an arbitrator is configured
dispute_NoArbitratorCheck(disputer, escrow_id) ==
    IF escrow_id \notin DOMAIN escrows THEN Rejected("EscrowNotFound")
    ELSE LET escrow == escrows[escrow_id] IN
    IF escrow.state # "Active" THEN Rejected("InvalidState")
    ELSE IF ~Contains(escrow.parties, disputer) THEN Rejected("NotParty")
    ELSE Outcome("Ok",
                 [escrows EXCEPT ![escrow_id].state = "Disputed"],
                 nextEscrowId, balance, paidOut)

dispute(disputer, escrow_id) ==
    IF escrow_id \notin DOMAIN escrows THEN Rejected("EscrowNotFound")
    ELSE LET escrow == escrows[escrow_id] IN
    IF escrow.state # "Active" THEN Rejected("InvalidState")
    ELSE IF ~Contains(escrow.parties, disputer) THEN Rejected("NotParty")
    ELSE IF escrow.arbitrator = NoAddress THEN Rejected("NoArbitrator")
    ELSE Outcome("Ok",
                 [escrows EXCEPT ![escrow_id].state = "Disputed"],
                 nextEscrowId, balance, paidOut)

resolve_dispute(arbitrator, escrow_id, resolution) ==
    IF escrow_id \notin DOMAIN escrows THEN Rejected("EscrowNotFound")
    ELSE LET escrow == escrows[escrow_id] IN
    IF escrow.state # "Disputed" THEN Rejected("InvalidState")
    ELSE IF escrow.arbitrator # arbitrator THEN Rejected("Unauthorized")
    ELSE LET paid == IF resolution = "Release"
                     THEN distribute_funds(balance, escrow, SumSeq(escrow.amounts))
                     ELSE refund_all(balance, escrow)
         IN
    IF ~paid.ok THEN Rejected("TransferTrap")
    ELSE Outcome("Ok",
                 [escrows EXCEPT ![escrow_id].state =
                        IF resolution = "Release" THEN "Released" ELSE "Refunded"],
                 nextEscrowId,
                 paid.balance,
                 [paidOut EXCEPT ![escrow_id] = @ + Spent(paid.balance)])

\* refund_timeout without the check that the escrow is Active
refund_timeout_NoStateCheck(escrow_id) ==
    IF escrow_id \notin DOMAIN escrows THEN Rejected("EscrowNotFound")
    ELSE LET escrow == escrows[escrow_id] IN
    IF now < escrow.timeout THEN Rejected("TimeoutNotReached")
    ELSE LET paid == refund_all(balance, escrow) IN
    IF ~paid.ok THEN Rejected("TransferTrap")
    ELSE Outcome("Ok",
                 [escrows EXCEPT ![escrow_id].state = "Refunded"],
                 nextEscrowId,
                 paid.balance,
                 [paidOut EXCEPT ![escrow_id] = @ + Spent(paid.balance)])

refund_timeout(escrow_id) ==
    IF escrow_id \notin DOMAIN escrows THEN Rejected("EscrowNotFound")
    ELSE LET escrow == escrows[escrow_id] IN
    IF escrow.state # "Active" THEN Rejected("InvalidState")
    ELSE IF now < escrow.timeout THEN Rejected("TimeoutNotReached")
    ELSE LET paid == refund_all(balance, escrow) IN
    IF ~paid.ok THEN Rejected("TransferTrap")
    ELSE Outcome("Ok",
                 [escrows EXCEPT ![escrow_id].state = "Refunded"],
                 nextEscrowId,
                 paid.balance,
                 [paidOut EXCEPT ![escrow_id] = @ + Spent(paid.balance)])

---------------------------------------------------------------------------
(* Actions: one per entry point *)

Apply(out) ==
    /\ escrows' = out.escrows
    /\ nextEscrowId' = out.nextEscrowId
    /\ balance' = out.balance
    /\ paidOut' = out.paidOut
    /\ UNCHANGED <<now, bountyVars, matchVars, vaultVars, collectionVars, nftVars>>

CreateEscrowFrom(maxId, createArgs) ==
    /\ get_next_escrow_id <= maxId
    /\ \E creator \in Creators, args \in createArgs, timeout \in TimeoutValues :
          Apply(create_escrow(creator, args[1], args[2], args[3], args[4], timeout))

CreateEscrow == CreateEscrowFrom(MaxEscrows, CreateArgs)

CreateSharedEscrow == CreateEscrowFrom(MaxSharedEscrows, SharedCreateArgs)

\* the calls on an existing escrow, made with escrow ids drawn from ids
Deposit(ids) ==
    \E depositor \in Address, escrow_id \in ids, amount \in DepositAmounts :
        Apply(deposit(depositor, escrow_id, amount))

Approve(ids) ==
    \E approver \in Address, escrow_id \in ids :
        Apply(approve(approver, escrow_id))

Release(ids) ==
    \E releaser \in Address, escrow_id \in ids, partial_amount \in PartialAmounts :
        Apply(release(releaser, escrow_id, partial_amount))

Dispute(ids) ==
    \E disputer \in Address, escrow_id \in ids :
        Apply(dispute(disputer, escrow_id))

ResolveDispute(ids) ==
    \E arbitrator \in Address, escrow_id \in ids, resolution \in Resolutions :
        Apply(resolve_dispute(arbitrator, escrow_id, resolution))

RefundTimeout(ids) ==
    \E escrow_id \in ids :
        Apply(refund_timeout(escrow_id))

Tick ==
    /\ now < MaxTime
    /\ now' = now + 1
    /\ UNCHANGED <<escrowVars, bountyVars, matchVars, vaultVars, collectionVars, nftVars>>

Init ==
    /\ escrows = <<>>
    /\ nextEscrowId = <<>>
    /\ balance = [a \in Address \cup {CONTRACT} |-> IF a = CONTRACT THEN 0 ELSE InitialBalance]
    /\ paidOut = <<>>
    /\ now = 0
    /\ bounties = <<>>
    /\ bountyCount = 0
    /\ admin = <<>>
    /\ bountyBalance = [a \in Address \cup {BOUNTY} |->
                            IF a = BOUNTY THEN 0 ELSE BountyInitialBalance(a)]
    /\ matches = <<>>
    /\ matchCounter = 0
    /\ matchBalance = [a \in Address \cup {MATCH} |->
                            IF a = MATCH THEN 0 ELSE MatchInitialBalance]
    /\ vaultConfig = <<>>
    /\ vaults = <<>>
    /\ vaultBalance = [a \in Address \cup {VAULT} |->
                            IF a = VAULT THEN 0 ELSE VaultInitialBalance(a)]
    /\ collection = EmptyStorage
    /\ nft = EmptyNft

Next ==
    \/ CreateEscrow
    \/ Deposit(1..MaxEscrows)
    \/ Approve(1..MaxEscrows)
    \/ Release(1..MaxEscrows)
    \/ Dispute(1..MaxEscrows)
    \/ ResolveDispute(1..MaxEscrows)
    \/ RefundTimeout(1..MaxEscrows)
    \/ Tick

Spec == Init /\ [][Next]_vars

SharedNext ==
    \/ CreateSharedEscrow
    \/ Deposit(1..MaxSharedEscrows)
    \/ Approve(1..MaxSharedEscrows)
    \/ Release(1..MaxSharedEscrows)
    \/ Dispute(1..MaxSharedEscrows)
    \/ ResolveDispute(1..MaxSharedEscrows)
    \/ RefundTimeout(1..MaxSharedEscrows)
    \/ Tick

SharedSpec == Init /\ [][SharedNext]_vars

CreateMajorityEscrow == CreateEscrowFrom(MaxEscrows, MajorityCreateArgs)

MajorityNext ==
    \/ CreateMajorityEscrow
    \/ Deposit(1..MaxEscrows)
    \/ Approve(1..MaxEscrows)
    \/ Release(1..MaxEscrows)
    \/ Dispute(1..MaxEscrows)
    \/ ResolveDispute(1..MaxEscrows)
    \/ RefundTimeout(1..MaxEscrows)
    \/ Tick

MajoritySpec == Init /\ [][MajorityNext]_vars

---------------------------------------------------------------------------
(* Bounty contract (src/contracts/bounty/src/lib.rs).  A call that panics   *)
(* commits nothing; err is the panic message.                               *)

BountyOutcome(e, r, bs, count, adm, bal) ==
    [err |-> e, ret |-> r, bounties |-> bs, bountyCount |-> count,
     admin |-> adm, bountyBalance |-> bal]

BountyRejected(e) == BountyOutcome(e, 0, bounties, bountyCount, admin, bountyBalance)

get_bounty_count == bountyCount

initialize(adm) ==
    IF admin # <<>> THEN BountyRejected("Already initialized")
    ELSE BountyOutcome("Ok", 0, bounties, 0, <<adm>>, bountyBalance)

create_bounty(creator, amount, duration) ==
    IF amount <= 0 THEN BountyRejected("Amount must be positive")
    ELSE LET count == bountyCount + 1
             bounty == [ id |-> count,
                         creator |-> creator,
                         amount |-> amount,
                         solver |-> NoAddress,
                         expiration |-> now + duration,
                         status |-> "Open" ]
         IN
    IF ~CanTransfer(bountyBalance, creator, amount) THEN BountyRejected("TransferTrap")
    ELSE BountyOutcome("Ok", count,
                       (count :> bounty) @@ bounties,
                       count,
                       admin,
                       Transfer(bountyBalance, creator, BOUNTY, amount))

accept_bounty(solver, bounty_id) ==
    IF bounty_id \notin DOMAIN bounties THEN BountyRejected("Bounty not found")
    ELSE LET bounty == bounties[bounty_id] IN
    IF bounty.status # "Open" THEN BountyRejected("Bounty is not open")
    ELSE IF now > bounty.expiration THEN BountyRejected("Bounty has expired")
    ELSE BountyOutcome("Ok", 0,
                       [bounties EXCEPT ![bounty_id].solver = solver,
                                        ![bounty_id].status = "Accepted"],
                       bountyCount, admin, bountyBalance)

submit_solution(solver, bounty_id) ==
    IF bounty_id \notin DOMAIN bounties THEN BountyRejected("Bounty not found")
    ELSE LET bounty == bounties[bounty_id] IN
    IF bounty.status # "Accepted" THEN BountyRejected("Bounty not accepted")
    ELSE IF solver # bounty.solver THEN BountyRejected("Not the assigned solver")
    ELSE IF now > bounty.expiration THEN BountyRejected("Bounty has expired")
    ELSE BountyOutcome("Ok", 0,
                       [bounties EXCEPT ![bounty_id].status = "Submitted"],
                       bountyCount, admin, bountyBalance)

approve_submission(creator, bounty_id) ==
    IF bounty_id \notin DOMAIN bounties THEN BountyRejected("Bounty not found")
    ELSE LET bounty == bounties[bounty_id] IN
    IF bounty.creator # creator THEN BountyRejected("Not the creator")
    ELSE IF bounty.status # "Submitted" THEN BountyRejected("No submission to approve")
    ELSE IF bounty.solver = NoAddress THEN BountyRejected("No solver found")
    ELSE IF ~CanTransfer(bountyBalance, BOUNTY, bounty.amount)
         THEN BountyRejected("TransferTrap")
    ELSE BountyOutcome("Ok", 0,
                       [bounties EXCEPT ![bounty_id].status = "Completed"],
                       bountyCount, admin,
                       Transfer(bountyBalance, BOUNTY, bounty.solver, bounty.amount))

\* cancel_bounty that lets an Accepted or Submitted bounty be cancelled before it expires
cancel_bounty_AnyTime(creator, bounty_id) ==
    IF bounty_id \notin DOMAIN bounties THEN BountyRejected("Bounty not found")
    ELSE LET bounty == bounties[bounty_id] IN
    IF bounty.creator # creator THEN BountyRejected("Not the creator")
    ELSE LET can_cancel == bounty.status \in {"Open", "Accepted", "Submitted"} IN
    IF ~can_cancel THEN BountyRejected("Cannot cancel at this stage or not yet expired")
    ELSE IF ~CanTransfer(bountyBalance, BOUNTY, bounty.amount)
         THEN BountyRejected("TransferTrap")
    ELSE BountyOutcome("Ok", 0,
                       [bounties EXCEPT ![bounty_id].status = "Cancelled"],
                       bountyCount, admin,
                       Transfer(bountyBalance, BOUNTY, creator, bounty.amount))

cancel_bounty(creator, bounty_id) ==
    IF bounty_id \notin DOMAIN bounties THEN BountyRejected("Bounty not found")
    ELSE LET bounty == bounties[bounty_id] IN
    IF bounty.creator # creator THEN BountyRejected("Not the creator")
    ELSE LET can_cancel ==
                CASE bounty.status = "Open" -> TRUE
                  [] bounty.status \in {"Accepted", "Submitted"} -> now > bounty.expiration
                  [] OTHER -> FALSE
         IN
    IF ~can_cancel THEN BountyRejected("Cannot cancel at this stage or not yet expired")
    ELSE IF ~CanTransfer(bountyBalance, BOUNTY, bounty.amount)
         THEN BountyRejected("TransferTrap")
    ELSE BountyOutcome("Ok", 0,
                       [bounties EXCEPT ![bounty_id].status = "Cancelled"],
                       bountyCount, admin,
                       Transfer(bountyBalance, BOUNTY, creator, bounty.amount))

dispute_bounty(caller, bounty_id) ==
    IF bounty_id \notin DOMAIN bounties THEN BountyRejected("Bounty not found")
    ELSE LET bounty == bounties[bounty_id] IN
    IF caller # bounty.creator /\ caller # bounty.solver
    THEN BountyRejected("Only creator or solver can dispute")
    ELSE IF bounty.status # "Submitted" /\ bounty.status # "Accepted"
    THEN BountyRejected("Cannot dispute at this stage")
    ELSE BountyOutcome("Ok", 0,
                       [bounties EXCEPT ![bounty_id].status = "Disputed"],
                       bountyCount, admin, bountyBalance)

\* the two transfers of resolve_dispute, each made only for a positive payout
ResolvePayouts(bal, bounty, solver_payout, creator_payout) ==
    LET toSolver ==
            IF solver_payout > 0
            THEN IF bounty.solver # NoAddress /\ CanTransfer(bal, BOUNTY, solver_payout)
                 THEN [ok |-> TRUE,
                       balance |-> Transfer(bal, BOUNTY, bounty.solver, solver_payout)]
                 ELSE [ok |-> FALSE, balance |-> bal]
            ELSE [ok |-> TRUE, balance |-> bal]
    IN  IF toSolver.ok /\ creator_payout > 0
        THEN IF CanTransfer(toSolver.balance, BOUNTY, creator_payout)
             THEN [ok |-> TRUE,
                   balance |-> Transfer(toSolver.balance, BOUNTY, bounty.creator,
                                        creator_payout)]
             ELSE [ok |-> FALSE, balance |-> bal]
        ELSE toSolver

\* resolve_dispute of the bounty contract without the upper limit on the solver's payout
bounty_resolve_dispute_NoUpperLimit(caller, bounty_id, solver_payout) ==
    IF admin = <<>> THEN BountyRejected("No admin set")
    ELSE IF caller # admin[1] THEN BountyRejected("Only admin can resolve disputes")
    ELSE IF bounty_id \notin DOMAIN bounties THEN BountyRejected("Bounty not found")
    ELSE LET bounty == bounties[bounty_id] IN
    IF bounty.status # "Disputed" THEN BountyRejected("Bounty is not in dispute")
    ELSE IF solver_payout < 0 THEN BountyRejected("Invalid payout amount")
    ELSE LET creator_payout == bounty.amount - solver_payout
             paid == ResolvePayouts(bountyBalance, bounty, solver_payout, creator_payout)
         IN
    IF ~paid.ok THEN BountyRejected("TransferTrap")
    ELSE BountyOutcome("Ok", 0,
                       [bounties EXCEPT ![bounty_id].status = "Completed"],
                       bountyCount, admin, paid.balance)

\* resolve_dispute of the bounty contract
bounty_resolve_dispute(caller, bounty_id, solver_payout) ==
    IF admin = <<>> THEN BountyRejected("No admin set")
    ELSE IF caller # admin[1] THEN BountyRejected("Only admin can resolve disputes")
    ELSE IF bounty_id \notin DOMAIN bounties THEN BountyRejected("Bounty not found")
    ELSE LET bounty == bounties[bounty_id] IN
    IF bounty.status # "Disputed" THEN BountyRejected("Bounty is not in dispute")
    ELSE IF solver_payout < 0 \/ solver_payout > bounty.amount
    THEN BountyRejected("Invalid payout amount")
    ELSE LET creator_payout == bounty.amount - solver_payout
             paid == ResolvePayouts(bountyBalance, bounty, solver_payout, creator_payout)
         IN
    IF ~paid.ok THEN BountyRejected("TransferTrap")
    ELSE BountyOutcome("Ok", 0,
                       [bounties EXCEPT ![bounty_id].status = "Completed"],
                       bountyCount, admin, paid.balance)

get_bounty(bounty_id) ==
    IF bounty_id \in DOMAIN bounties THEN <<bounties[bounty_id]>> ELSE <<>>

Min(a, b) == IF a <= b THEN a ELSE b

\* the bounties get_active_bounties pushes for the ids from..(end - 1), in that order
RECURSIVE ActiveIn(_, _)
ActiveIn(from, end) ==
    IF from >= end THEN <<>>
    ELSE LET found == get_bounty(from)
             push == IF found # <<>> /\ found[1].status \in {"Open", "Accepted", "Submitted"}
                     THEN found ELSE <<>>
         IN  push \o ActiveIn(from + 1, end)

get_active_bounties(offset, limit) ==
    LET count == get_bounty_count IN
    IF offset > count THEN <<>>
    ELSE LET end == Min(offset + limit, count + 1)
         IN  ActiveIn(offset + 1, end)

(* Actions of the bounty contract: one per entry point *)

BountyApply(out) ==
    /\ bounties' = out.bounties
    /\ bountyCount' = out.bountyCount
    /\ admin' = out.admin
    /\ bountyBalance' = out.bountyBalance
    /\ UNCHANGED <<now, escrowVars, matchVars, vaultVars, collectionVars, nftVars>>

Initialize ==
    \E adm \in Admins : BountyApply(initialize(adm))

CreateBounty ==
    /\ get_bounty_count < MaxBounties
    /\ \E creator \in BountyCreators, amount \in BountyAmounts, duration \in Durations :
          BountyApply(create_bounty(creator, amount, duration))

AcceptBounty ==
    \E solver \in Solvers, bounty_id \in 1..MaxBounties :
        BountyApply(accept_bounty(solver, bounty_id))

SubmitSolution ==
    \E solver \in Address, bounty_id \in 1..MaxBounties :
        BountyApply(submit_solution(solver, bounty_id))

ApproveSubmission ==
    \E creator \in Address, bounty_id \in 1..MaxBounties :
        BountyApply(approve_submission(creator, bounty_id))

CancelBounty ==
    \E creator \in Address, bounty_id \in 1..MaxBounties :
        BountyApply(cancel_bounty(creator, bounty_id))

DisputeBounty ==
    \E caller \in Address, bounty_id \in 1..MaxBounties :
        BountyApply(dispute_bounty(caller, bounty_id))

BountyResolveDispute ==
    \E caller \in Address, bounty_id \in 1..MaxBounties, solver_payout \in SolverPayouts :
        BountyApply(bounty_resolve_dispute(caller, bounty_id, solver_payout))

BountyNext ==
    \/ Initialize
    \/ CreateBounty
    \/ AcceptBounty
    \/ SubmitSolution
    \/ ApproveSubmission
    \/ CancelBounty
    \/ DisputeBounty
    \/ BountyResolveDispute
    \/ Tick

BountySpec == Init /\ [][BountyNext]_vars

---------------------------------------------------------------------------
(* Match contract (src/contracts/multiplayer_match/src/lib.rs).  A call     *)
(* that panics commits nothing; err is the error code.  The source reads    *)
(* submission_duration and reveal_duration from MatchData, which does not   *)
(* declare them; as its comments in start_match say, they are taken to be   *)
(* fields set by create_match.  Maps are functions on the set of their      *)
(* keys.                                                                    *)

MatchOutcome(e, r, ms, counter, bal) ==
    [err |-> e, ret |-> r, matches |-> ms, matchCounter |-> counter, matchBalance |-> bal]

MatchRejected(e) == MatchOutcome(e, 0, matches, matchCounter, matchBalance)

EmptyMap == <<>>

\* Map::set
MapSet(map, key, value) == [k \in DOMAIN map \cup {key} |-> IF k = key THEN value ELSE map[k]]

\* Map::remove
MapRemove(map, key) == [k \in DOMAIN map \ {key} |-> map[k]]

\* Vec::remove_unchecked
RemoveAt(s, index) == [i \in 1..(Len(s) - 1) |-> IF i < index THEN s[i] ELSE s[i + 1]]

\* transfer_from_contract to every address of the sequence recipients, in order
RECURSIVE PayEach(_, _, _, _)
PayEach(bal, recipients, amount, k) ==
    IF k = 0 THEN [ok |-> TRUE, balance |-> bal]
    ELSE LET before == PayEach(bal, recipients, amount, k - 1) IN
         IF ~before.ok \/ ~CanTransfer(before.balance, MATCH, amount)
         THEN [ok |-> FALSE, balance |-> bal]
         ELSE [ok |-> TRUE,
               balance |-> Transfer(before.balance, MATCH, recipients[k], amount)]

\* transfer_from_contract of the same amount to every address of the set
\* recipients: the transfers succeed together or the first that fails traps
PayAll(bal, recipients, amount) ==
    IF amount < 0 \/ bal[MATCH] < amount * Cardinality(recipients)
    THEN [ok |-> FALSE, balance |-> bal]
    ELSE [ok |-> TRUE,
          balance |-> [a \in DOMAIN bal |->
                          IF a = MATCH THEN bal[a] - amount * Cardinality(recipients)
                          ELSE IF a \in recipients THEN bal[a] + amount
                          ELSE bal[a]]]

create_match(creator, entry_fee, max_players, min_players, join_duration, submission_duration, reveal_duration) ==
    LET counter == matchCounter + 1
        match_data == [ creator |-> creator,
                        entry_fee |-> entry_fee,
                        max_players |-> max_players,
                        min_players |-> min_players,
                        players |-> <<creator>>,
                        status |-> "Open",
                        pot |-> 0,
                        create_time |-> now,
                        join_deadline |-> now + join_duration,
                        submission_deadline |-> 0,
                        reveal_deadline |-> 0,
                        submission_duration |-> submission_duration,
                        reveal_duration |-> reveal_duration,
                        commits |-> EmptyMap,
                        results |-> EmptyMap,
                        disputes |-> EmptyMap,
                        resolved |-> EmptyMap ]
    IN  IF ~CanTransfer(matchBalance, creator, entry_fee) THEN MatchRejected("TransferTrap")
        ELSE MatchOutcome("Ok", counter,
                          (counter :> [match_data EXCEPT !.pot = @ + entry_fee]) @@ matches,
                          counter,
                          Transfer(matchBalance, creator, MATCH, entry_fee))

\* start_match that sets the deadline and leaves the match Open
start_match_StaysOpen(match_data) ==
    [match_data EXCEPT !.submission_deadline = now + match_data.submission_duration]

\* start_match: the match stored under match_id enters Submission
start_match(match_data) ==
    [match_data EXCEPT !.status = "Submission",
                       !.submission_deadline = now + match_data.submission_duration]

join_match(match_id, player) ==
    IF match_id \notin DOMAIN matches THEN MatchRejected("MatchNotFound")
    ELSE LET match_data == matches[match_id] IN
    IF match_data.status # "Open" THEN MatchRejected("InvalidStatus")
    ELSE IF now > match_data.join_deadline THEN MatchRejected("DeadlinePassed")
    ELSE IF Len(match_data.players) >= match_data.max_players
         THEN MatchRejected("MaxPlayersReached")
    ELSE IF Contains(match_data.players, player) THEN MatchRejected("AlreadyJoined")
    ELSE IF ~CanTransfer(matchBalance, player, match_data.entry_fee)
         THEN MatchRejected("TransferTrap")
    ELSE LET updated_match == [match_data EXCEPT !.players = Append(@, player),
                                                 !.pot = @ + match_data.entry_fee]
         IN  MatchOutcome("Ok", 0,
                          [matches EXCEPT ![match_id] =
                                IF Len(updated_match.players) >= updated_match.min_players
                                THEN start_match(updated_match)
                                ELSE updated_match],
                          matchCounter,
                          Transfer(matchBalance, player, MATCH, match_data.entry_fee))

leave_match(match_id, player) ==
    IF match_id \notin DOMAIN matches THEN MatchRejected("MatchNotFound")
    ELSE LET match_data == matches[match_id] IN
    IF match_data.status # "Open" THEN MatchRejected("InvalidStatus")
    ELSE IF ~Contains(match_data.players, player) THEN MatchRejected("NotPlayer")
    ELSE IF ~CanTransfer(matchBalance, MATCH, match_data.entry_fee)
         THEN MatchRejected("TransferTrap")
    ELSE LET index == Position(match_data.players, player)
         IN  MatchOutcome("Ok", 0,
                          [matches EXCEPT ![match_id].players = RemoveAt(@, index),
                                          ![match_id].pot = @ - match_data.entry_fee],
                          matchCounter,
                          Transfer(matchBalance, MATCH, player, match_data.entry_fee))

submit_commit(match_id, player, commit_hash) ==
    IF match_id \notin DOMAIN matches THEN MatchRejected("MatchNotFound")
    ELSE LET match_data == matches[match_id] IN
    IF match_data.status # "Submission" THEN MatchRejected("InvalidStatus")
    ELSE IF now > match_data.submission_deadline THEN MatchRejected("DeadlinePassed")
    ELSE IF ~Contains(match_data.players, player) THEN MatchRejected("NotPlayer")
    ELSE LET committed == [match_data EXCEPT !.commits = MapSet(@, player, commit_hash)]
         IN  MatchOutcome("Ok", 0,
                          [matches EXCEPT ![match_id] =
                                IF Cardinality(DOMAIN committed.commits) = Len(committed.players)
                                THEN [committed EXCEPT
                                        !.status = "Reveal",
                                        !.reveal_deadline = now + committed.reveal_duration]
                                ELSE committed],
                          matchCounter, matchBalance)

reveal_result(match_id, player, score, secret) ==
    IF match_id \notin DOMAIN matches THEN MatchRejected("MatchNotFound")
    ELSE LET match_data == matches[match_id] IN
    IF match_data.status # "Reveal" THEN MatchRejected("InvalidStatus")
    ELSE IF now > match_data.reveal_deadline THEN MatchRejected("DeadlinePassed")
    ELSE IF ~Contains(match_data.players, player) THEN MatchRejected("NotPlayer")
    ELSE IF player \notin DOMAIN match_data.commits THEN MatchRejected("NoResults")
    ELSE IF Hash(player, score, secret) # match_data.commits[player]
         THEN MatchRejected("InvalidReveal")
    ELSE MatchOutcome("Ok", 0,
                      [matches EXCEPT ![match_id].results = MapSet(@, player, score)],
                      matchCounter, matchBalance)

\* raise_dispute that records the dispute and leaves the match in Reveal
raise_dispute_StaysInReveal(match_id, disputer, disputed) ==
    IF match_id \notin DOMAIN matches THEN MatchRejected("MatchNotFound")
    ELSE LET match_data == matches[match_id] IN
    IF match_data.status # "Reveal" THEN MatchRejected("InvalidStatus")
    ELSE IF ~Contains(match_data.players, disputer) \/ ~Contains(match_data.players, disputed)
         THEN MatchRejected("NotPlayer")
    ELSE IF disputer = disputed THEN MatchRejected("InvalidOp")
    ELSE LET disputers == IF disputed \in DOMAIN match_data.disputes
                          THEN match_data.disputes[disputed] ELSE <<>>
         IN
    IF Contains(disputers, disputer) THEN MatchRejected("AlreadyJoined")
    ELSE MatchOutcome("Ok", 0,
                      [matches EXCEPT
                            ![match_id].disputes = MapSet(@, disputed, Append(disputers, disputer))],
                      matchCounter, matchBalance)

raise_dispute(match_id, disputer, disputed) ==
    IF match_id \notin DOMAIN matches THEN MatchRejected("MatchNotFound")
    ELSE LET match_data == matches[match_id] IN
    IF match_data.status # "Reveal" THEN MatchRejected("InvalidStatus")
    ELSE IF ~Contains(match_data.players, disputer) \/ ~Contains(match_data.players, disputed)
         THEN MatchRejected("NotPlayer")
    ELSE IF disputer = disputed THEN MatchRejected("InvalidOp")
    ELSE LET disputers == IF disputed \in DOMAIN match_data.disputes
                          THEN match_data.disputes[disputed] ELSE <<>>
         IN
    IF Contains(disputers, disputer) THEN MatchRejected("AlreadyJoined")
    ELSE MatchOutcome("Ok", 0,
                      [matches EXCEPT
                            ![match_id].disputes = MapSet(@, disputed, Append(disputers, disputer)),
                            ![match_id].status = "Disputed"],
                      matchCounter, matchBalance)

\* resolve_dispute of the match contract; caller is the address that authorised the call
match_resolve_dispute(caller, match_id, disputed, valid) ==
    IF match_id \notin DOMAIN matches THEN MatchRejected("MatchNotFound")
    ELSE LET match_data == matches[match_id] IN
    IF caller # match_data.creator THEN MatchRejected("AuthTrap")
    ELSE IF match_data.status # "Disputed" THEN MatchRejected("InvalidStatus")
    ELSE IF disputed \notin DOMAIN match_data.disputes THEN MatchRejected("DisputeNotFound")
    ELSE IF disputed \in DOMAIN match_data.resolved THEN MatchRejected("AlreadyResolved")
    ELSE LET resolved == MapSet(match_data.resolved, disputed, valid)
             results == IF valid THEN match_data.results
                        ELSE MapRemove(match_data.results, disputed)
             all_resolved == DOMAIN match_data.disputes \subseteq DOMAIN resolved
         IN  MatchOutcome("Ok", 0,
                          [matches EXCEPT
                                ![match_id].resolved = resolved,
                                ![match_id].results = results,
                                ![match_id].status = IF all_resolved THEN "Finished" ELSE @],
                          matchCounter, matchBalance)

\* refund_all of the match contract: the entry fee back to every player
match_refund_all(bal, match_data) ==
    PayEach(bal, match_data.players, match_data.entry_fee, Len(match_data.players))

\* the winners evaluate_match pays: the players with a valid result of the highest score
ValidResults(match_data) ==
    {player \in DOMAIN match_data.results :
        IF player \in DOMAIN match_data.resolved THEN match_data.resolved[player] ELSE TRUE}

\* the winners with every holder of a valid result taken as one
Winners_AnyValidResult(match_data) ==
    ValidResults(match_data)

Winners(match_data) ==
    {player \in ValidResults(match_data) :
        \A other \in ValidResults(match_data) :
            match_data.results[other] <= match_data.results[player]}

\* the prize with the pot divided by the number of players
Prize_PerPlayer(match_data, winners) ==
    TruncDiv(match_data.pot, Len(match_data.players))

\* the prize of each winner
Prize(match_data, winners) ==
    TruncDiv(match_data.pot, Cardinality(winners))

evaluate_match(match_id) ==
    IF match_id \notin DOMAIN matches THEN MatchRejected("MatchNotFound")
    ELSE LET match_data == matches[match_id] IN
    IF match_data.status # "Finished" /\ now <= match_data.reveal_deadline
    THEN MatchRejected("DeadlinePassed")
    ELSE IF match_data.status \notin {"Finished", "Reveal"} THEN MatchRejected("InvalidStatus")
    ELSE IF ValidResults(match_data) = {}
    THEN LET paid == match_refund_all(matchBalance, match_data) IN
         IF ~paid.ok THEN MatchRejected("TransferTrap")
         ELSE MatchOutcome("Ok", 0,
                           [matches EXCEPT ![match_id].pot = 0,
                                           ![match_id].status = "Abandoned"],
                           matchCounter, paid.balance)
    ELSE LET winners == Winners(match_data)
             prize == Prize(match_data, winners)
             paid == PayAll(matchBalance, winners, prize)
         IN
         IF ~paid.ok THEN MatchRejected("TransferTrap")
         ELSE MatchOutcome("Ok", 0,
                           [matches EXCEPT ![match_id].pot = 0,
                                           ![match_id].status = "Finished"],
                           matchCounter, paid.balance)

\* handle_timeout storing an Open match it has refunded as Open still
handle_timeout_KeepsOpen(match_id) ==
    IF match_id \notin DOMAIN matches THEN MatchRejected("MatchNotFound")
    ELSE LET match_data == matches[match_id] IN
    CASE /\ match_data.status = "Open"
         /\ now > match_data.join_deadline
         /\ Len(match_data.players) < match_data.min_players ->
            LET paid == match_refund_all(matchBalance, match_data) IN
            IF ~paid.ok THEN MatchRejected("TransferTrap")
            ELSE MatchOutcome("Ok", 0, matches, matchCounter, paid.balance)
      [] match_data.status = "Submission" /\ now > match_data.submission_deadline ->
            MatchOutcome("Ok", 0,
                         [matches EXCEPT
                                ![match_id].status = "Reveal",
                                ![match_id].reveal_deadline = now + match_data.reveal_duration],
                         matchCounter, matchBalance)
      [] match_data.status = "Reveal" /\ now > match_data.reveal_deadline ->
            MatchOutcome("Ok", 0,
                         [matches EXCEPT ![match_id].status = "Finished"],
                         matchCounter, matchBalance)
      [] OTHER -> MatchRejected("InvalidStatus")

handle_timeout(match_id) ==
    IF match_id \notin DOMAIN matches THEN MatchRejected("MatchNotFound")
    ELSE LET match_data == matches[match_id] IN
    CASE /\ match_data.status = "Open"
         /\ now > match_data.join_deadline
         /\ Len(match_data.players) < match_data.min_players ->
            \* refund_all stores pot 0, then the copy loaded before it is stored over it
            LET paid == match_refund_all(matchBalance, match_data) IN
            IF ~paid.ok THEN MatchRejected("TransferTrap")
            ELSE MatchOutcome("Ok", 0,
                              [matches EXCEPT ![match_id].status = "Abandoned"],
                              matchCounter, paid.balance)
      [] match_data.status = "Submission" /\ now > match_data.submission_deadline ->
            MatchOutcome("Ok", 0,
                         [matches EXCEPT
                                ![match_id].status = "Reveal",
                                ![match_id].reveal_deadline = now + match_data.reveal_duration],
                         matchCounter, matchBalance)
      [] match_data.status = "Reveal" /\ now > match_data.reveal_deadline ->
            MatchOutcome("Ok", 0,
                         [matches EXCEPT ![match_id].status = "Finished"],
                         matchCounter, matchBalance)
      [] OTHER -> MatchRejected("InvalidStatus")

(* Actions of the match contract: one per entry point *)

MatchApply(out) ==
    /\ matches' = out.matches
    /\ matchCounter' = out.matchCounter
    /\ matchBalance' = out.matchBalance
    /\ UNCHANGED <<now, escrowVars, bountyVars, vaultVars, collectionVars, nftVars>>

CreateMatch ==
    /\ matchCounter < MaxMatches
    /\ \E creator \in MatchCreators, args \in MatchArgs :
          MatchApply(create_match(creator, args[1], args[2], args[3], args[4], args[5], args[6]))

JoinMatch ==
    \E match_id \in 1..MaxMatches, player \in Joiners :
        MatchApply(join_match(match_id, player))

LeaveMatch ==
    \E match_id \in 1..MaxMatches, player \in Address :
        MatchApply(leave_match(match_id, player))

SubmitCommit ==
    \E match_id \in 1..MaxMatches, player \in Address :
        \E commit_hash \in CommitHashes(player) :
            MatchApply(submit_commit(match_id, player, commit_hash))

RevealResult ==
    \E match_id \in 1..MaxMatches, player \in Address, score \in Scores, secret \in Secrets :
        MatchApply(reveal_result(match_id, player, score, secret))

RaiseDispute ==
    \E match_id \in 1..MaxMatches, disputer \in Address, disputed \in Address :
        MatchApply(raise_dispute(match_id, disputer, disputed))

MatchResolveDispute ==
    \E caller \in Address, match_id \in 1..MaxMatches, disputed \in Address,
       valid \in Validities :
        MatchApply(match_resolve_dispute(caller, match_id, disputed, valid))

EvaluateMatch ==
    \E match_id \in 1..MaxMatches : MatchApply(evaluate_match(match_id))

HandleTimeout ==
    \E match_id \in 1..MaxMatches : MatchApply(handle_timeout(match_id))

MatchNext ==
    \/ CreateMatch
    \/ JoinMatch
    \/ LeaveMatch
    \/ SubmitCommit
    \/ RevealResult
    \/ RaiseDispute
    \/ MatchResolveDispute
    \/ EvaluateMatch
    \/ HandleTimeout
    \/ Tick

MatchSpec == Init /\ [][MatchNext]_vars

(* The escrow and the match contract on one ledger.  The two share no       *)
(* storage and no token balance, so a behaviour is followed for the         *)
(* contract that is used first: the calls of the other one start from its   *)
(* state after deployment only.                                             *)

EscrowUnused == escrows = <<>> /\ nextEscrowId = <<>>

MatchUnused == matches = <<>> /\ matchCounter = 0

PayoutNext ==
    \/ MatchUnused /\ Next
    \/ EscrowUnused /\ MatchNext

PayoutSpec == Init /\ [][PayoutNext]_vars

---------------------------------------------------------------------------
(* Reward vault (src/contracts/reward_vault/src/lib.rs).  A call that       *)
(* panics commits nothing; err is the panic message.  Option<Address> is    *)
(* NoAddress for None.                                                      *)

VaultOutcome(e, r, cfg, vs, bal) ==
    [err |-> e, ret |-> r, vaultConfig |-> cfg, vaults |-> vs, vaultBalance |-> bal]

VaultRejected(e) == VaultOutcome(e, 0, vaultConfig, vaults, vaultBalance)

BASIS_POINTS == 10000

\* (a * b) / c for a >= 0, b >= 0, c > 0.  The source forms the product in
\* i128; it is evaluated here as (a div c) * b + ((a mod c) * b) div c, which
\* is the same integer and keeps every intermediate value small.
MulDiv(a, b, c) == (a \div c) * b + ((a % c) * b) \div c

\* get_config: unwrap of the stored configuration
Initialized == vaultConfig # <<>>

get_config == vaultConfig[1]

get_vault(owner) == IF owner \in DOMAIN vaults THEN <<vaults[owner]>> ELSE <<>>

\* the lock options built by initialize from the two lists
LockOptions(lock_periods, bonus_bps) ==
    [i \in 1..Len(lock_periods) |-> [period |-> lock_periods[i], bonus_bps |-> bonus_bps[i]]]

vault_initialize(adm, early_withdraw_penalty_bps, emergency_penalty_bps, lock_periods, bonus_bps) ==
    IF Initialized THEN VaultRejected("Already initialized")
    ELSE IF lock_periods = <<>> \/ Len(lock_periods) # Len(bonus_bps)
    THEN VaultRejected("Invalid lock options")
    ELSE IF \/ early_withdraw_penalty_bps > BASIS_POINTS
            \/ emergency_penalty_bps > BASIS_POINTS
    THEN VaultRejected("Invalid penalty")
    ELSE IF \E i \in 1..Len(lock_periods) : lock_periods[i] = 0
    THEN VaultRejected("Lock period must be positive")
    ELSE VaultOutcome("Ok", 0,
                      << [ admin |-> adm,
                           early_withdraw_penalty_bps |-> early_withdraw_penalty_bps,
                           emergency_penalty_bps |-> emergency_penalty_bps,
                           emergency_unlock_enabled |-> FALSE,
                           lock_options |-> LockOptions(lock_periods, bonus_bps) ] >>,
                      vaults, vaultBalance)

\* assert_admin
assert_admin(user) == get_config.admin = user

fund_bonus_pool(adm, amount) ==
    IF ~Initialized THEN VaultRejected("Not initialized")
    ELSE IF ~assert_admin(adm) THEN VaultRejected("Admin only")
    ELSE IF amount <= 0 THEN VaultRejected("Amount must be positive")
    ELSE IF ~CanTransfer(vaultBalance, adm, amount) THEN VaultRejected("TransferTrap")
    ELSE VaultOutcome("Ok", 0, vaultConfig, vaults, Transfer(vaultBalance, adm, VAULT, amount))

set_emergency_unlock(adm, enabled) ==
    IF ~Initialized THEN VaultRejected("Not initialized")
    ELSE IF get_config.admin # adm THEN VaultRejected("Admin only")
    ELSE VaultOutcome("Ok", 0,
                      << [get_config EXCEPT !.emergency_unlock_enabled = enabled] >>,
                      vaults, vaultBalance)

\* bonus_for_lock_period: the bonus of the first option of that period
Supported(config, lock_period) ==
    \E i \in 1..Len(config.lock_options) : config.lock_options[i].period = lock_period

bonus_for_lock_period(config, lock_period) ==
    LET i == CHOOSE k \in 1..Len(config.lock_options) :
                 /\ config.lock_options[k].period = lock_period
                 /\ \A j \in 1..(k - 1) : config.lock_options[j].period # lock_period
    IN  config.lock_options[i].bonus_bps

\* calculate_bonus with the quotient rounded up instead of truncated
calculate_bonus_RoundsUp(amount, bonus_bps) ==
    MulDiv(amount, bonus_bps, BASIS_POINTS)
        + (IF ((amount % BASIS_POINTS) * bonus_bps) % BASIS_POINTS # 0 THEN 1 ELSE 0)

calculate_bonus(amount, bonus_bps) == MulDiv(amount, bonus_bps, BASIS_POINTS)

vault_deposit(owner, amount, lock_period) ==
    IF amount <= 0 THEN VaultRejected("Amount must be positive")
    ELSE IF get_vault(owner) # <<>> /\ get_vault(owner)[1].amount > 0
    THEN VaultRejected("Active vault exists")
    ELSE IF ~Initialized THEN VaultRejected("Not initialized")
    ELSE IF ~Supported(get_config, lock_period) THEN VaultRejected("Unsupported lock period")
    ELSE LET vault == [ owner |-> owner,
                        amount |-> amount,
                        lock_period |-> lock_period,
                        bonus_bps |-> bonus_for_lock_period(get_config, lock_period),
                        deposited_at |-> now,
                        maturity_at |-> now + lock_period,
                        beneficiary |-> NoAddress ]
         IN
    IF ~CanTransfer(vaultBalance, owner, amount) THEN VaultRejected("TransferTrap")
    ELSE VaultOutcome("Ok", 0, vaultConfig, MapSet(vaults, owner, vault),
                      Transfer(vaultBalance, owner, VAULT, amount))

set_beneficiary(owner, beneficiary) ==
    IF owner \notin DOMAIN vaults THEN VaultRejected("Vault not found")
    ELSE VaultOutcome("Ok", 0, vaultConfig,
                      [vaults EXCEPT ![owner].beneficiary = beneficiary],
                      vaultBalance)

\* extend_lock that leaves the bonus of the shorter lock in place
extend_lock_KeepsBonus(owner, additional_lock_period) ==
    IF additional_lock_period = 0 THEN VaultRejected("Additional lock must be positive")
    ELSE IF ~Initialized THEN VaultRejected("Not initialized")
    ELSE IF owner \notin DOMAIN vaults THEN VaultRejected("Vault not found")
    ELSE LET vault == vaults[owner]
             current_total_lock == vault.maturity_at - vault.deposited_at
             new_total_lock == current_total_lock + additional_lock_period
         IN
    IF now >= vault.maturity_at THEN VaultRejected("Vault already matured")
    ELSE IF ~Supported(get_config, new_total_lock) THEN VaultRejected("Unsupported lock period")
    ELSE VaultOutcome("Ok", 0, vaultConfig,
                      [vaults EXCEPT
                          ![owner].lock_period = new_total_lock,
                          ![owner].maturity_at = @ + additional_lock_period],
                      vaultBalance)

\* extend_lock that lengthens the lock period and leaves the maturity in place
extend_lock_KeepsMaturity(owner, additional_lock_period) ==
    IF additional_lock_period = 0 THEN VaultRejected("Additional lock must be positive")
    ELSE IF ~Initialized THEN VaultRejected("Not initialized")
    ELSE IF owner \notin DOMAIN vaults THEN VaultRejected("Vault not found")
    ELSE LET vault == vaults[owner]
             current_total_lock == vault.maturity_at - vault.deposited_at
             new_total_lock == current_total_lock + additional_lock_period
         IN
    IF now >= vault.maturity_at THEN VaultRejected("Vault already matured")
    ELSE IF ~Supported(get_config, new_total_lock) THEN VaultRejected("Unsupported lock period")
    ELSE VaultOutcome("Ok", 0, vaultConfig,
                      [vaults EXCEPT
                          ![owner].lock_period = new_total_lock,
                          ![owner].bonus_bps = bonus_for_lock_period(get_config, new_total_lock)],
                      vaultBalance)

extend_lock(owner, additional_lock_period) ==
    IF additional_lock_period = 0 THEN VaultRejected("Additional lock must be positive")
    ELSE IF ~Initialized THEN VaultRejected("Not initialized")
    ELSE IF owner \notin DOMAIN vaults THEN VaultRejected("Vault not found")
    ELSE LET vault == vaults[owner]
             current_total_lock == vault.maturity_at - vault.deposited_at
             new_total_lock == current_total_lock + additional_lock_period
         IN
    IF now >= vault.maturity_at THEN VaultRejected("Vault already matured")
    ELSE IF ~Supported(get_config, new_total_lock) THEN VaultRejected("Unsupported lock period")
    ELSE VaultOutcome("Ok", 0, vaultConfig,
                      [vaults EXCEPT
                          ![owner].lock_period = new_total_lock,
                          ![owner].bonus_bps = bonus_for_lock_period(get_config, new_total_lock),
                          ![owner].maturity_at = @ + additional_lock_period],
                      vaultBalance)

\* the tail of an exit that pays but leaves the owner's position in storage
PayOutAndRemove_KeepsPosition(owner, recipient, payout) ==
    IF ~CanTransfer(vaultBalance, VAULT, payout) THEN VaultRejected("TransferTrap")
    ELSE VaultOutcome("Ok", payout, vaultConfig, vaults,
                      Transfer(vaultBalance, VAULT, recipient, payout))

\* the tail shared by the five exits: transfer the payout out of the vault
\* to the recipient, remove the owner's position, return the payout
PayOutAndRemove(owner, recipient, payout) ==
    IF ~CanTransfer(vaultBalance, VAULT, payout) THEN VaultRejected("TransferTrap")
    ELSE VaultOutcome("Ok", payout, vaultConfig, MapRemove(vaults, owner),
                      Transfer(vaultBalance, VAULT, recipient, payout))

withdraw_mature(owner) ==
    IF owner \notin DOMAIN vaults THEN VaultRejected("Vault not found")
    ELSE LET vault == vaults[owner] IN
    IF now < vault.maturity_at THEN VaultRejected("Vault not matured")
    ELSE PayOutAndRemove(owner, owner,
                         vault.amount + calculate_bonus(vault.amount, vault.bonus_bps))

distribute_mature_payout(owner) ==
    IF owner \notin DOMAIN vaults THEN VaultRejected("Vault not found")
    ELSE LET vault == vaults[owner] IN
    IF now < vault.maturity_at THEN VaultRejected("Vault not matured")
    ELSE PayOutAndRemove(owner, owner,
                         vault.amount + calculate_bonus(vault.amount, vault.bonus_bps))

\* early_withdraw charging the emergency penalty instead of the early one
early_withdraw_EmergencyPenalty(owner) ==
    IF owner \notin DOMAIN vaults THEN VaultRejected("Vault not found")
    ELSE LET vault == vaults[owner] IN
    IF now >= vault.maturity_at THEN VaultRejected("Vault already matured")
    ELSE LET penalty == MulDiv(vault.amount, get_config.emergency_penalty_bps, BASIS_POINTS)
         IN  PayOutAndRemove(owner, owner, vault.amount - penalty)

early_withdraw(owner) ==
    IF owner \notin DOMAIN vaults THEN VaultRejected("Vault not found")
    ELSE LET vault == vaults[owner] IN
    IF now >= vault.maturity_at THEN VaultRejected("Vault already matured")
    ELSE LET penalty == MulDiv(vault.amount, get_config.early_withdraw_penalty_bps, BASIS_POINTS)
         IN  PayOutAndRemove(owner, owner, vault.amount - penalty)

\* emergency_withdraw that does not read the emergency-unlock flag
emergency_withdraw_IgnoresFlag(owner) ==
    IF owner \notin DOMAIN vaults THEN VaultRejected("Vault not found")
    ELSE LET vault == vaults[owner] IN
    LET penalty == MulDiv(vault.amount, get_config.emergency_penalty_bps, BASIS_POINTS)
    IN  PayOutAndRemove(owner, owner, vault.amount - penalty)

emergency_withdraw(owner) ==
    IF owner \notin DOMAIN vaults THEN VaultRejected("Vault not found")
    ELSE LET vault == vaults[owner] IN
    IF ~get_config.emergency_unlock_enabled THEN VaultRejected("Emergency unlock disabled")
    ELSE LET penalty == MulDiv(vault.amount, get_config.emergency_penalty_bps, BASIS_POINTS)
         IN  PayOutAndRemove(owner, owner, vault.amount - penalty)

\* claim_inheritance that does not compare the caller with the saved beneficiary
claim_inheritance_AnyCaller(beneficiary, owner) ==
    IF owner \notin DOMAIN vaults THEN VaultRejected("Vault not found")
    ELSE LET vault == vaults[owner] IN
    IF now < vault.maturity_at THEN VaultRejected("Vault not matured")
    ELSE PayOutAndRemove(owner, beneficiary,
                         vault.amount + calculate_bonus(vault.amount, vault.bonus_bps))

claim_inheritance(beneficiary, owner) ==
    IF owner \notin DOMAIN vaults THEN VaultRejected("Vault not found")
    ELSE LET vault == vaults[owner] IN
    IF now < vault.maturity_at THEN VaultRejected("Vault not matured")
    ELSE IF vault.beneficiary # beneficiary THEN VaultRejected("Not beneficiary")
    ELSE PayOutAndRemove(owner, beneficiary,
                         vault.amount + calculate_bonus(vault.amount, vault.bonus_bps))

is_mature(owner) == owner \in DOMAIN vaults /\ now >= vaults[owner].maturity_at

preview_mature_payout(owner) ==
    IF owner \in DOMAIN vaults
    THEN vaults[owner].amount + calculate_bonus(vaults[owner].amount, vaults[owner].bonus_bps)
    ELSE 0

(* Actions of the reward vault: one per entry point *)

VaultApply(out) ==
    /\ vaultConfig' = out.vaultConfig
    /\ vaults' = out.vaults
    /\ vaultBalance' = out.vaultBalance
    /\ UNCHANGED <<now, escrowVars, bountyVars, matchVars, collectionVars, nftVars>>

VaultInitialize ==
    \E adm \in VaultAdmins, args \in VaultInitArgs :
        VaultApply(vault_initialize(adm, args[1], args[2], args[3], args[4]))

FundBonusPool ==
    \E adm \in Address, amount \in FundAmounts : VaultApply(fund_bonus_pool(adm, amount))

SetEmergencyUnlock ==
    \E adm \in Address, enabled \in Enabled : VaultApply(set_emergency_unlock(adm, enabled))

VaultDeposit ==
    \E args \in VaultDepositArgs, lock_period \in LockPeriods :
        VaultApply(vault_deposit(args[1], args[2], lock_period))

SetBeneficiary ==
    \E owner \in Address, beneficiary \in Beneficiaries :
        VaultApply(set_beneficiary(owner, beneficiary))

ExtendLock ==
    \E owner \in Address, additional_lock_period \in LockPeriods :
        VaultApply(extend_lock(owner, additional_lock_period))

WithdrawMature == \E owner \in Address : VaultApply(withdraw_mature(owner))

DistributeMaturePayout == \E owner \in Address : VaultApply(distribute_mature_payout(owner))

EarlyWithdraw == \E owner \in Address : VaultApply(early_withdraw(owner))

EmergencyWithdraw == \E owner \in Address : VaultApply(emergency_withdraw(owner))

ClaimInheritance ==
    \E beneficiary \in Address, owner \in Address :
        VaultApply(claim_inheritance(beneficiary, owner))

\* the ledger clock of the vault's behaviours
VaultTick ==
    /\ now < MaxVaultTime
    /\ now' = now + 1
    /\ UNCHANGED <<escrowVars, bountyVars, matchVars, vaultVars, collectionVars, nftVars>>

VaultNext ==
    \/ VaultInitialize
    \/ FundBonusPool
    \/ SetEmergencyUnlock
    \/ VaultDeposit
    \/ SetBeneficiary
    \/ ExtendLock
    \/ WithdrawMature
    \/ DistributeMaturePayout
    \/ EarlyWithdraw
    \/ EmergencyWithdraw
    \/ ClaimInheritance
    \/ VaultTick

VaultSpec == Init /\ [][VaultNext]_vars

---------------------------------------------------------------------------
(* Achievement collection (src/contracts/achievement_collection/src/lib.rs). *)
(* A call that panics commits nothing; err is the panic message.            *)

CollectionOutcome(e, r, st) == [err |-> e, ret |-> r, collection |-> st]

CollectionRejected(e) == CollectionOutcome(e, 0, collection)

\* storage().instance().get(key).unwrap_or(default) on one of the maps
GetOr(map, key, default) == IF key \in DOMAIN map THEN map[key] ELSE default

\* NextSetId read with unwrap_or(1)
next_set_id == IF collection.nextSetId = <<>> THEN 1 ELSE collection.nextSetId[1]

collection_initialize ==
    IF collection.nextSetId # <<>> THEN CollectionRejected("initialized")
    ELSE CollectionOutcome("Ok", 0, [collection EXCEPT !.nextSetId = <<1>>])

\* the loop of create_set over the first k achievements: maps each to the set,
\* and fails at the first that is already mapped
RECURSIVE MapAchievements(_, _, _, _)
MapAchievements(achToSet, achievements, id, k) ==
    IF k = 0 THEN [ok |-> TRUE, achToSet |-> achToSet]
    ELSE LET before == MapAchievements(achToSet, achievements, id, k - 1) IN
         IF ~before.ok \/ achievements[k] \in DOMAIN before.achToSet
         THEN [ok |-> FALSE, achToSet |-> achToSet]
         ELSE [ok |-> TRUE, achToSet |-> MapSet(before.achToSet, achievements[k], id)]

create_set(name, achievements, rarity, limited_cap, bonus_points) ==
    IF Len(achievements) = 0 THEN CollectionRejected("empty set")
    ELSE LET id == next_set_id
             set == [ id |-> id,
                      name |-> name,
                      achievements |-> achievements,
                      rarity |-> rarity,
                      limited_cap |-> limited_cap,
                      bonus_points |-> bonus_points ]
             mapped == MapAchievements(collection.achToSet, achievements, id, Len(achievements))
         IN
    IF ~mapped.ok THEN CollectionRejected("achievement already mapped")
    ELSE CollectionOutcome("Ok", id,
                           [collection EXCEPT !.sets = MapSet(@, id, set),
                                              !.nextSetId = <<id + 1>>,
                                              !.achToSet = mapped.achToSet])

get_set(set_id) == IF set_id \in DOMAIN collection.sets THEN <<collection.sets[set_id]>> ELSE <<>>

add_achievement_to_set(set_id, achievement_id) ==
    IF set_id \notin DOMAIN collection.sets THEN CollectionRejected("set")
    ELSE LET set == collection.sets[set_id] IN
    IF Contains(set.achievements, achievement_id) THEN CollectionOutcome("Ok", 0, collection)
    ELSE IF achievement_id \in DOMAIN collection.achToSet
    THEN CollectionRejected("achievement already mapped")
    ELSE CollectionOutcome("Ok", 0,
            [collection EXCEPT
                !.sets = [@ EXCEPT ![set_id].achievements = Append(@, achievement_id)],
                !.achToSet = MapSet(@, achievement_id, set_id)])

progress(player, set_id) == GetOr(collection.progress, <<player, set_id>>, <<>>)

is_completed_internal(set, prog) ==
    /\ Len(prog) >= Len(set.achievements)
    /\ \A i \in 1..Len(set.achievements) : Contains(prog, set.achievements[i])

is_completed(player, set_id) ==
    is_completed_internal(collection.sets[set_id], progress(player, set_id))

bonus_of(player) == GetOr(collection.bonus, player, 0)

\* record_achievement that awards the bonus whenever the set is complete,
\* without reading the Completed marker
record_achievement_NoMarker(player, achievement_id) ==
    IF achievement_id \notin DOMAIN collection.achToSet THEN CollectionRejected("mapped")
    ELSE LET set_id == collection.achToSet[achievement_id] IN
    IF set_id \notin DOMAIN collection.sets THEN CollectionRejected("set")
    ELSE LET set == collection.sets[set_id]
             progress_for_cap == progress(player, set_id)
             cnt == GetOr(collection.achCount, achievement_id, 0)
             acquiring == ~Contains(progress_for_cap, achievement_id)
         IN
    IF set.limited_cap.some /\ acquiring /\ cnt >= set.limited_cap.val
    THEN CollectionRejected("limited cap reached")
    ELSE LET counted == IF set.limited_cap.some /\ acquiring
                        THEN MapSet(collection.achCount, achievement_id, cnt + 1)
                        ELSE collection.achCount
             new_progress == IF acquiring THEN Append(progress_for_cap, achievement_id)
                             ELSE progress_for_cap
             stored == IF acquiring
                       THEN MapSet(collection.progress, <<player, set_id>>, new_progress)
                       ELSE collection.progress
             completed == is_completed_internal(set, new_progress)
             already == GetOr(collection.completed, <<player, set_id>>, FALSE)
             award == completed
         IN  CollectionOutcome("Ok", completed,
                [collection EXCEPT
                    !.achCount = counted,
                    !.progress = stored,
                    !.bonus = IF award
                              THEN MapSet(@, player, bonus_of(player) + set.bonus_points)
                              ELSE @,
                    !.completed = IF award THEN MapSet(@, <<player, set_id>>, TRUE) ELSE @])
\* record_achievement that lets one claim through after the cap is reached
record_achievement_CapOffByOne(player, achievement_id) ==
    IF achievement_id \notin DOMAIN collection.achToSet THEN CollectionRejected("mapped")
    ELSE LET set_id == collection.achToSet[achievement_id] IN
    IF set_id \notin DOMAIN collection.sets THEN CollectionRejected("set")
    ELSE LET set == collection.sets[set_id]
             progress_for_cap == progress(player, set_id)
             cnt == GetOr(collection.achCount, achievement_id, 0)
             acquiring == ~Contains(progress_for_cap, achievement_id)
         IN
    IF set.limited_cap.some /\ acquiring /\ cnt > set.limited_cap.val
    THEN CollectionRejected("limited cap reached")
    ELSE LET counted == IF set.limited_cap.some /\ acquiring
                        THEN MapSet(collection.achCount, achievement_id, cnt + 1)
                        ELSE collection.achCount
             new_progress == IF acquiring THEN Append(progress_for_cap, achievement_id)
                             ELSE progress_for_cap
             stored == IF acquiring
                       THEN MapSet(collection.progress, <<player, set_id>>, new_progress)
                       ELSE collection.progress
             completed == is_completed_internal(set, new_progress)
             already == GetOr(collection.completed, <<player, set_id>>, FALSE)
             award == completed /\ ~already
         IN  CollectionOutcome("Ok", completed,
                [collection EXCEPT
                    !.achCount = counted,
                    !.progress = stored,
                    !.bonus = IF award
                              THEN MapSet(@, player, bonus_of(player) + set.bonus_points)
                              ELSE @,
                    !.completed = IF award THEN MapSet(@, <<player, set_id>>, TRUE) ELSE @])
record_achievement(player, achievement_id) ==
    IF achievement_id \notin DOMAIN collection.achToSet THEN CollectionRejected("mapped")
    ELSE LET set_id == collection.achToSet[achievement_id] IN
    IF set_id \notin DOMAIN collection.sets THEN CollectionRejected("set")
    ELSE LET set == collection.sets[set_id]
             progress_for_cap == progress(player, set_id)
             cnt == GetOr(collection.achCount, achievement_id, 0)
             acquiring == ~Contains(progress_for_cap, achievement_id)
         IN
    IF set.limited_cap.some /\ acquiring /\ cnt >= set.limited_cap.val
    THEN CollectionRejected("limited cap reached")
    ELSE LET counted == IF set.limited_cap.some /\ acquiring
                        THEN MapSet(collection.achCount, achievement_id, cnt + 1)
                        ELSE collection.achCount
             new_progress == IF acquiring THEN Append(progress_for_cap, achievement_id)
                             ELSE progress_for_cap
             stored == IF acquiring
                       THEN MapSet(collection.progress, <<player, set_id>>, new_progress)
                       ELSE collection.progress
             completed == is_completed_internal(set, new_progress)
             already == GetOr(collection.completed, <<player, set_id>>, FALSE)
             award == completed /\ ~already
         IN  CollectionOutcome("Ok", completed,
                [collection EXCEPT
                    !.achCount = counted,
                    !.progress = stored,
                    !.bonus = IF award
                              THEN MapSet(@, player, bonus_of(player) + set.bonus_points)
                              ELSE @,
                    !.completed = IF award THEN MapSet(@, <<player, set_id>>, TRUE) ELSE @])

\* the Vec without every occurrence of x, in order
Without(s, x) == SelectSeq(s, LAMBDA v : v # x)

\* transfer_progress that appends to the receiver without looking for a
\* duplicate
transfer_progress_AlwaysAppends(from, to, achievement_id) ==
    IF achievement_id \notin DOMAIN collection.achToSet THEN CollectionRejected("mapped")
    ELSE LET set_id == collection.achToSet[achievement_id]
             from_progress == progress(from, set_id)
         IN
    IF ~Contains(from_progress, achievement_id) THEN CollectionRejected("not owned")
    ELSE LET new_from == Without(from_progress, achievement_id)
             removed == MapSet(collection.progress, <<from, set_id>>, new_from)
             to_progress == GetOr(removed, <<to, set_id>>, <<>>)
             added == MapSet(removed, <<to, set_id>>, Append(to_progress, achievement_id))
         IN  CollectionOutcome("Ok", 0, [collection EXCEPT !.progress = added])

transfer_progress(from, to, achievement_id) ==
    IF achievement_id \notin DOMAIN collection.achToSet THEN CollectionRejected("mapped")
    ELSE LET set_id == collection.achToSet[achievement_id]
             from_progress == progress(from, set_id)
         IN
    IF ~Contains(from_progress, achievement_id) THEN CollectionRejected("not owned")
    ELSE LET new_from == Without(from_progress, achievement_id)
             removed == MapSet(collection.progress, <<from, set_id>>, new_from)
             to_progress == GetOr(removed, <<to, set_id>>, <<>>)
             added == IF ~Contains(to_progress, achievement_id)
                      THEN MapSet(removed, <<to, set_id>>, Append(to_progress, achievement_id))
                      ELSE removed
         IN  CollectionOutcome("Ok", 0, [collection EXCEPT !.progress = added])

(* Actions of the achievement collection: one per entry point *)

CollectionApply(out) ==
    /\ collection' = out.collection
    /\ UNCHANGED <<now, escrowVars, bountyVars, matchVars, vaultVars, nftVars>>

CollectionInitialize == CollectionApply(collection_initialize)

CreateSet ==
    /\ next_set_id <= MaxSets
    /\ \E name \in SetNames, args \in SetArgs, rarity \in Rarities :
          CollectionApply(create_set(name, args[1], rarity, args[2], args[3]))

AddAchievementToSet ==
    \E set_id \in 1..MaxSets, achievement_id \in AchievementIds :
        CollectionApply(add_achievement_to_set(set_id, achievement_id))

RecordAchievement ==
    \E player \in Claimers, achievement_id \in AchievementIds :
        CollectionApply(record_achievement(player, achievement_id))

TransferProgress ==
    \E from \in Players, to \in Players, achievement_id \in AchievementIds :
        CollectionApply(transfer_progress(from, to, achievement_id))

CollectionNext ==
    \/ CollectionInitialize
    \/ CreateSet
    \/ AddAchievementToSet
    \/ RecordAchievement
    \/ TransferProgress

CollectionSpec == Init /\ [][CollectionNext]_vars

---------------------------------------------------------------------------
(* Achievement NFT (src/contracts/achievement_nft).  The repository holds   *)
(* the contract's tests only, so the entry points are the ones the tests    *)
(* call, with the behaviour section 4.4 of the specification gives them:    *)
(* mint, transfer and burn of singly owned records, each in its owner's     *)
(* enumerable collection.  A call that panics commits nothing; err is the   *)
(* panic message.                                                           *)

NftOutcome(e, r, st) == [err |-> e, ret |-> r, nft |-> st]

NftRejected(e) == NftOutcome(e, 0, nft)

nft_initialize(adm) ==
    IF nft.admin # <<>> THEN NftRejected("Already initialized")
    ELSE NftOutcome("Ok", 0, [nft EXCEPT !.admin = <<adm>>])

total_supply == nft.totalSupply

get_collection(owner) == GetOr(nft.collections, owner, <<>>)

\* Option<Achievement>: <<>> is None
get_achievement(token_id) ==
    IF token_id \in DOMAIN nft.achievements THEN <<nft.achievements[token_id]>> ELSE <<>>

owner_of(token_id) == nft.achievements[token_id].owner

mint(to, puzzle_id, metadata) ==
    LET token_id == nft.nextTokenId
        achievement == [owner |-> to, puzzle_id |-> puzzle_id, metadata |-> metadata]
    IN  NftOutcome("Ok", token_id,
                   [nft EXCEPT
                        !.achievements = MapSet(@, token_id, achievement),
                        !.collections = MapSet(@, to, Append(get_collection(to), token_id)),
                        !.nextTokenId = token_id + 1,
                        !.totalSupply = @ + 1])

\* transfer that leaves the token in the sender's collection
transfer_KeepsInSender(from, to, token_id) ==
    IF token_id \notin DOMAIN nft.achievements THEN NftRejected("Token not found")
    ELSE IF owner_of(token_id) # from THEN NftRejected("Not the owner")
    ELSE NftOutcome("Ok", 0,
                    [nft EXCEPT
                        !.achievements[token_id].owner = to,
                        !.collections = MapSet(@, to, Append(get_collection(to), token_id))])

\* from authorises the call
transfer(from, to, token_id) ==
    IF token_id \notin DOMAIN nft.achievements THEN NftRejected("Token not found")
    ELSE IF owner_of(token_id) # from THEN NftRejected("Not the owner")
    ELSE LET removed == MapSet(nft.collections, from, Without(get_collection(from), token_id))
         IN  NftOutcome("Ok", 0,
                        [nft EXCEPT
                            !.achievements[token_id].owner = to,
                            !.collections =
                                MapSet(removed, to, Append(GetOr(removed, to, <<>>), token_id))])

\* the token's owner authorises the call
burn(token_id) ==
    IF token_id \notin DOMAIN nft.achievements THEN NftRejected("Token not found")
    ELSE LET owner == owner_of(token_id) IN
         NftOutcome("Ok", 0,
                    [nft EXCEPT
                        !.achievements = MapRemove(@, token_id),
                        !.collections = MapSet(@, owner, Without(get_collection(owner), token_id)),
                        !.totalSupply = @ - 1])

(* Actions of the achievement NFT: one per entry point *)

NftApply(out) ==
    /\ nft' = out.nft
    /\ UNCHANGED <<now, escrowVars, bountyVars, matchVars, vaultVars, collectionVars>>

NftInitialize == \E adm \in NftAdmins : NftApply(nft_initialize(adm))

Mint ==
    /\ nft.nextTokenId <= MaxTokens
    /\ \E to \in NftUsers, puzzle_id \in PuzzleIds, metadata \in Metadata :
          NftApply(mint(to, puzzle_id, metadata))

NftTransfer ==
    \E from \in NftUsers, to \in NftUsers, token_id \in 1..MaxTokens :
        NftApply(transfer(from, to, token_id))

Burn == \E token_id \in 1..MaxTokens : NftApply(burn(token_id))

NftNext ==
    \/ NftInitialize
    \/ Mint
    \/ NftTransfer
    \/ Burn

NftSpec == Init /\ [][NftNext]_vars

---------------------------------------------------------------------------
(* Shorthand used by the properties below *)

Stored == DOMAIN escrows

PartyIndexes(e) == 1..Len(e.parties)

Terminal(e) == e.state \in {"Released", "Refunded"}

\* a call that was rejected: its outcome is the state it was made in
LeftUnchanged(out) ==
    /\ out.escrows = escrows
    /\ out.nextEscrowId = nextEscrowId
    /\ out.balance = balance
    /\ out.paidOut = paidOut

RejectedWith(out, e) == out.err = e /\ LeftUnchanged(out)

\* tokens an outcome credits to address a
Received(out, a) == out.balance[a] - balance[a]

TotalDeposited(e) == SumSeq(e.deposited)

TotalObligations(e) == SumSeq(e.amounts)

---------------------------------------------------------------------------
(* C1: for every escrow the custody held is sum(deposited) minus what was   *)
(* paid out for it, and it is never negative: the contract's balance is the *)
(* sum of these custodies and no escrow has paid out more than was          *)
(* deposited into it.                                                       *)

RECURSIVE CustodySum(_)
CustodySum(ids) ==
    IF ids = {} THEN 0
    ELSE LET id == CHOOSE x \in ids : TRUE
         IN  TotalDeposited(escrows[id]) - paidOut[id] + CustodySum(ids \ {id})

C1_CustodyBalanced ==
    /\ balance[CONTRACT] = CustodySum(Stored)
    /\ \A id \in Stored : paidOut[id] <= TotalDeposited(escrows[id])

---------------------------------------------------------------------------
(* C2: once an escrow is Released or Refunded, every deposit, approve,      *)
(* release, dispute, resolve_dispute and refund_timeout call on it is       *)
(* rejected with InvalidState and changes neither storage nor balances.     *)

C2_TerminalRejectsEveryCall ==
    \A id \in Stored :
        Terminal(escrows[id]) =>
            /\ \A a \in Address, amount \in DepositAmounts :
                    RejectedWith(deposit(a, id, amount), "InvalidState")
            /\ \A a \in Address : RejectedWith(approve(a, id), "InvalidState")
            /\ \A a \in Address, pa \in PartialAmounts :
                    RejectedWith(release(a, id, pa), "InvalidState")
            /\ \A a \in Address : RejectedWith(dispute(a, id), "InvalidState")
            /\ \A a \in Address, r \in Resolutions :
                    RejectedWith(resolve_dispute(a, id, r), "InvalidState")
            /\ RejectedWith(refund_timeout(id), "InvalidState")

\* an escrow that refund_timeout has refunded, at a time the deadline has passed
C2_Witness ==
    \E id \in Stored :
        /\ escrows[id].state = "Refunded"
        /\ escrows[id].arbitrator = NoAddress
        /\ paidOut[id] = TotalDeposited(escrows[id])
        /\ paidOut[id] > 0
        /\ now >= escrows[id].timeout

---------------------------------------------------------------------------
(* C3: the approve call that makes the release condition true releases the  *)
(* escrow and pays each of the N parties floor(total/N) of the custody.     *)

C3_AutoReleaseDistributes ==
    \A id \in Stored, a \in Address :
        LET e == escrows[id]
            out == approve(a, id)
        IN  (e.state = "Active" /\ out.err = "Ok" /\ check_release_conditions(out.escrows[id]))
            => /\ out.escrows[id].state = "Released"
               /\ \A i \in PartyIndexes(e) :
                    Received(out, e.parties[i]) = TotalDeposited(e) \div Len(e.parties)

---------------------------------------------------------------------------
(* C4: under AllPartiesApprove an Active escrow has a party that has not    *)
(* approved; approve by a listed party records the approval and releases    *)
(* the escrow exactly when it was the last one missing; approve by an       *)
(* address that is not listed is rejected with NotParty, and approve on an  *)
(* escrow that is not Active with InvalidState.                             *)

C4_AllPartiesApprove ==
    \A id \in Stored, a \in Address :
        LET e == escrows[id]
            out == approve(a, id)
        IN  /\ e.state # "Active" => RejectedWith(out, "InvalidState")
            /\ (e.state = "Active" /\ e.conditions = <<"AllPartiesApprove">>) =>
                /\ \E i \in PartyIndexes(e) : ~e.approvals[i]
                /\ (\A i \in PartyIndexes(e) : e.parties[i] # a)
                        => RejectedWith(out, "NotParty")
                /\ \A i \in PartyIndexes(e) :
                      e.parties[i] = a =>
                        /\ out.err = "Ok"
                        /\ out.escrows[id].approvals[i]
                        /\ \A j \in PartyIndexes(e) \ {i} :
                              out.escrows[id].approvals[j] = e.approvals[j]
                        /\ out.escrows[id].state =
                              IF \A j \in PartyIndexes(e) \ {i} : e.approvals[j]
                              THEN "Released" ELSE "Active"

\* an escrow released by the last of its parties' approvals
C4_Witness ==
    \E id \in Stored :
        /\ escrows[id].conditions = <<"AllPartiesApprove">>
        /\ escrows[id].state = "Released"
        /\ Len(escrows[id].parties) >= 2
        /\ \A i \in PartyIndexes(escrows[id]) : escrows[id].approvals[i]

---------------------------------------------------------------------------
(* C5: refund_timeout on an Active escrow is rejected with                   *)
(* TimeoutNotReached, changing nothing, while the ledger time is before the *)
(* escrow's deadline; from the deadline on it succeeds, returns to each     *)
(* party exactly its own deposited amount and sets the state to Refunded.   *)

C5_TimeoutRefund ==
    \A id \in Stored :
        LET e == escrows[id]
            out == refund_timeout(id)
        IN  e.state = "Active" =>
              /\ now < e.timeout => RejectedWith(out, "TimeoutNotReached")
              /\ now >= e.timeout =>
                    /\ out.err = "Ok"
                    /\ out.escrows[id].state = "Refunded"
                    /\ \A i \in PartyIndexes(e) :
                          Received(out, e.parties[i]) = e.deposited[i]

---------------------------------------------------------------------------
(* C6: for every escrow and party index i, 0 <= deposited[i] <=             *)
(* obligations[i]; a deposit by a party that has already deposited is       *)
(* rejected with AlreadyDeposited, pulls no tokens and changes nothing.     *)

C6_DepositedWithinObligation ==
    \A id \in Stored :
        LET e == escrows[id]
        IN  \A i \in PartyIndexes(e) :
              /\ 0 <= e.deposited[i]
              /\ e.deposited[i] <= e.amounts[i]
              /\ e.deposited[i] > 0 =>
                    \A amount \in DepositAmounts :
                        RejectedWith(deposit(e.parties[i], id, amount), "AlreadyDeposited")

---------------------------------------------------------------------------
(* C7: create_escrow succeeds only with a non-empty party list, party and   *)
(* obligation lists of equal length and strictly positive obligations, so   *)
(* every stored escrow has these; a rejected creation returns               *)
(* InvalidParties, stores nothing and leaves the id counter alone.          *)

ValidArguments(parties, amounts) ==
    /\ parties # <<>>
    /\ Len(parties) = Len(amounts)
    /\ \A i \in 1..Len(amounts) : amounts[i] > 0

C7_CreateValidates ==
    /\ \A id \in Stored : ValidArguments(escrows[id].parties, escrows[id].amounts)
    /\ \A creator \in Creators, args \in CreateArgs, timeout \in TimeoutValues :
          LET out == create_escrow(creator, args[1], args[2], args[3], args[4], timeout)
          IN  out.err # "Ok" => RejectedWith(out, "InvalidParties")

---------------------------------------------------------------------------
(* C8: an escrow starts Created with every deposited entry 0 and every      *)
(* approval false; it is Created exactly while some party has not deposited *)
(* its full obligation; and an escrow created with valid arguments that is  *)
(* still Created has a party whose deposit is accepted, so it can reach     *)
(* Active.                                                                  *)

C8_ActiveOnceAllDeposited ==
    /\ \A creator \in Creators, args \in CreateArgs, timeout \in TimeoutValues :
          LET out == create_escrow(creator, args[1], args[2], args[3], args[4], timeout)
              new == out.escrows[get_next_escrow_id]
          IN  out.err = "Ok" =>
                /\ new.state = "Created"
                /\ \A i \in PartyIndexes(new) : new.deposited[i] = 0 /\ ~new.approvals[i]
    /\ \A id \in Stored :
          LET e == escrows[id]
          IN  ValidArguments(e.parties, e.amounts) =>
                /\ e.state = "Created" <=>
                      \E i \in PartyIndexes(e) : e.deposited[i] # e.amounts[i]
                /\ e.state = "Created" =>
                      \E a \in Address, amount \in DepositAmounts :
                          deposit(a, id, amount).err = "Ok"

---------------------------------------------------------------------------
(* C9: release on an Active escrow succeeds only if the recorded approvals  *)
(* satisfy the escrow's release condition or the caller is the configured   *)
(* arbitrator; every other caller is rejected with Unauthorized and no      *)
(* tokens move.                                                             *)

ApprovalCount(e) == Cardinality({i \in PartyIndexes(e) : e.approvals[i]})

PolicySatisfied(e) ==
    \E c \in 1..Len(e.conditions) :
        \/ e.conditions[c] = "AllPartiesApprove" /\ ApprovalCount(e) = Len(e.parties)
        \/ e.conditions[c] = "MajorityApprove" /\ 2 * ApprovalCount(e) > Len(e.parties)

MayRelease(e, a) ==
    \/ PolicySatisfied(e)
    \/ e.arbitrator # NoAddress /\ a = e.arbitrator

C9_ReleaseAuthorised ==
    \A id \in Stored, a \in Address, pa \in PartialAmounts :
        LET e == escrows[id]
            out == release(a, id, pa)
        IN  e.state = "Active" =>
              /\ ~MayRelease(e, a) => RejectedWith(out, "Unauthorized")
              /\ out.err = "Ok" => MayRelease(e, a)

\* an escrow its arbitrator has released while a party's approval was missing
C9_Witness ==
    \E id \in Stored :
        /\ escrows[id].state = "Released"
        /\ escrows[id].arbitrator = "arb"
        /\ ~PolicySatisfied(escrows[id])
        /\ paidOut[id] > 0

---------------------------------------------------------------------------
(* C10: a release of the total obligations (or with the amount omitted)     *)
(* sets the escrow to Released, a release of a smaller amount leaves it     *)
(* Active, a release of more than the total is rejected, and the releases   *)
(* made on an escrow never pay out more than the escrow holds.              *)

ReleaseAmount(e, pa) == IF pa.some THEN pa.val ELSE TotalObligations(e)

C10_ReleaseAmounts ==
    \A id \in Stored :
        LET e == escrows[id]
        IN  e.state = "Active" =>
              /\ paidOut[id] <= TotalDeposited(e)
              /\ \A a \in Address, pa \in PartialAmounts :
                    LET out == release(a, id, pa)
                    IN  MayRelease(e, a) =>
                          /\ ReleaseAmount(e, pa) > TotalObligations(e)
                                => RejectedWith(out, "AmountMismatch")
                          /\ (ReleaseAmount(e, pa) = TotalObligations(e) /\ out.err = "Ok")
                                => out.escrows[id].state = "Released"
                          /\ ReleaseAmount(e, pa) < TotalObligations(e)
                                => out.escrows[id].state = "Active"

---------------------------------------------------------------------------
(* C11: dispute succeeds exactly on an Active escrow, for a listed party,   *)
(* when an arbitrator is configured, and then only sets the state to        *)
(* Disputed; on an escrow that is not Active it is rejected with            *)
(* InvalidState, for a caller that is not a party with NotParty, without an *)
(* arbitrator with NoArbitrator, and a rejected call changes nothing.       *)

IsParty(e, a) == \E i \in PartyIndexes(e) : e.parties[i] = a

C11_DisputeGuards ==
    \A id \in Stored, a \in Address :
        LET e == escrows[id]
            out == dispute(a, id)
        IN  /\ e.state # "Active" => RejectedWith(out, "InvalidState")
            /\ (e.state = "Active" /\ ~IsParty(e, a)) => RejectedWith(out, "NotParty")
            /\ (e.state = "Active" /\ IsParty(e, a) /\ e.arbitrator = NoAddress)
                    => RejectedWith(out, "NoArbitrator")
            /\ (e.state = "Active" /\ IsParty(e, a) /\ e.arbitrator # NoAddress)
                    => /\ out.err = "Ok"
                       /\ out.escrows = [escrows EXCEPT ![id].state = "Disputed"]
                       /\ out.balance = balance
            /\ out.err = "Ok"
                    => e.state = "Active" /\ IsParty(e, a) /\ e.arbitrator # NoAddress

\* an escrow with an arbitrator that a party has put in dispute
C11_Witness ==
    \E id \in Stored :
        /\ escrows[id].state = "Disputed"
        /\ escrows[id].arbitrator = "arb"
        /\ \A i \in PartyIndexes(escrows[id]) : escrows[id].deposited[i] > 0

---------------------------------------------------------------------------
(* C12: resolve_dispute succeeds only on a Disputed escrow and only for its *)
(* arbitrator; any other caller is rejected with Unauthorized and nothing   *)
(* changes; the arbitrator's Release pays every party floor(total/N) and    *)
(* ends in Released, the arbitrator's Refund returns every party its own    *)
(* deposited amount and ends in Refunded.                                   *)

C12_ResolveDispute ==
    \A id \in Stored, a \in Address, r \in Resolutions :
        LET e == escrows[id]
            out == resolve_dispute(a, id, r)
        IN  /\ out.err = "Ok" => e.state = "Disputed" /\ a = e.arbitrator
            /\ (e.state = "Disputed" /\ a # e.arbitrator)
                    => RejectedWith(out, "Unauthorized")
            /\ (e.state = "Disputed" /\ a = e.arbitrator /\ r = "Release")
                    => /\ out.err = "Ok"
                       /\ out.escrows[id].state = "Released"
                       /\ \A i \in PartyIndexes(e) :
                             Received(out, e.parties[i])
                                = TotalObligations(e) \div Len(e.parties)
            /\ (e.state = "Disputed" /\ a = e.arbitrator /\ r = "Refund")
                    => /\ out.err = "Ok"
                       /\ out.escrows[id].state = "Refunded"
                       /\ \A i \in PartyIndexes(e) :
                             Received(out, e.parties[i]) = e.deposited[i]

---------------------------------------------------------------------------
(* C14: under MajorityApprove with N parties an Active escrow has at most   *)
(* N/2 approving parties; approve by a listed party releases the escrow     *)
(* exactly when the distinct approving parties, the caller included, are    *)
(* more than N/2, and an approval repeated by the same party changes        *)
(* nothing.                                                                 *)

C14_MajorityApprove ==
    \A id \in Stored, a \in Address :
        LET e == escrows[id]
            out == approve(a, id)
        IN  (e.state = "Active" /\ e.conditions = <<"MajorityApprove">>) =>
              /\ 2 * ApprovalCount(e) <= Len(e.parties)
              /\ \A i \in PartyIndexes(e) :
                    e.parties[i] = a =>
                      LET approving == {j \in PartyIndexes(e) : e.approvals[j]} \cup {i}
                      IN  /\ out.err = "Ok"
                          /\ {j \in PartyIndexes(e) : out.escrows[id].approvals[j]} = approving
                          /\ out.escrows[id].state =
                                IF 2 * Cardinality(approving) > Len(e.parties)
                                THEN "Released" ELSE "Active"
                          /\ e.approvals[i] => out.escrows = escrows

\* a three-party escrow released by the second approval, the third party not having approved
C14_Witness ==
    \E id \in Stored :
        /\ escrows[id].conditions = <<"MajorityApprove">>
        /\ escrows[id].state = "Released"
        /\ Len(escrows[id].parties) = 3
        /\ ApprovalCount(escrows[id]) = 2
        /\ paidOut[id] = 0

---------------------------------------------------------------------------
(* Shorthand for the bounty contract *)

BountyIds == DOMAIN bounties

BountyLeftUnchanged(out) ==
    /\ out.bounties = bounties
    /\ out.bountyCount = bountyCount
    /\ out.admin = admin
    /\ out.bountyBalance = bountyBalance

BountyRejectedCall(out) == out.err # "Ok" /\ BountyLeftUnchanged(out)

\* tokens an outcome of the bounty contract credits to address a
BountyReceived(out, a) == out.bountyBalance[a] - bountyBalance[a]

InCustody(b) == b.status \in {"Open", "Accepted", "Submitted", "Disputed"}

---------------------------------------------------------------------------
(* C16: the ids handed out so far are exactly 1..n, every agreement is      *)
(* stored under its own id, a successful creation returns n + 1, an id that *)
(* no stored agreement has, and a rejected creation leaves the counter and  *)
(* the stored agreements alone; for escrows and for bounties.               *)

C16_IdsNeverReused ==
    /\ Stored = 1..(get_next_escrow_id - 1)
    /\ \A id \in Stored : escrows[id].id = id
    /\ \A creator \in Creators, args \in CreateArgs \cup SharedCreateArgs,
          timeout \in TimeoutValues :
          LET out == create_escrow(creator, args[1], args[2], args[3], args[4], timeout)
          IN  IF out.err = "Ok"
              THEN /\ DOMAIN out.escrows = Stored \cup {Cardinality(Stored) + 1}
                   /\ out.escrows[Cardinality(Stored) + 1].id = Cardinality(Stored) + 1
                   /\ \A id \in Stored : out.escrows[id] = escrows[id]
              ELSE LeftUnchanged(out)
    /\ BountyIds = 1..get_bounty_count
    /\ \A id \in BountyIds : bounties[id].id = id
    /\ \A creator \in BountyCreators, amount \in BountyAmounts, duration \in Durations :
          LET out == create_bounty(creator, amount, duration)
          IN  IF out.err = "Ok"
              THEN /\ out.ret = Cardinality(BountyIds) + 1
                   /\ DOMAIN out.bounties = BountyIds \cup {out.ret}
                   /\ out.bounties[out.ret].id = out.ret
                   /\ \A id \in BountyIds : out.bounties[id] = bounties[id]
              ELSE BountyLeftUnchanged(out)

---------------------------------------------------------------------------
(* C17: resolve_dispute of the bounty contract, called by the admin on a    *)
(* Disputed bounty with 0 <= solver_payout <= amount, pays the solver       *)
(* solver_payout and the creator amount - solver_payout, which together are *)
(* exactly the amount that leaves the contract; every other call is         *)
(* rejected and transfers nothing.                                          *)

C17_ResolveSplitsAmount ==
    \A id \in BountyIds, caller \in Address, solver_payout \in SolverPayouts :
        LET b == bounties[id]
            out == bounty_resolve_dispute(caller, id, solver_payout)
        IN  IF /\ admin = <<caller>>
               /\ b.status = "Disputed"
               /\ 0 <= solver_payout /\ solver_payout <= b.amount
            THEN /\ out.err = "Ok"
                 /\ \A a \in Address :
                       BountyReceived(out, a) =
                            (IF a = b.solver THEN solver_payout ELSE 0)
                          + (IF a = b.creator THEN b.amount - solver_payout ELSE 0)
                 /\ BountyReceived(out, BOUNTY) = -b.amount
            ELSE BountyRejectedCall(out)

\* a resolved bounty of 2 tokens of which the solver got 1 and the creator 1
C17_Witness ==
    \E id \in BountyIds :
        /\ bounties[id].status = "Completed"
        /\ bounties[id].amount = 2
        /\ bountyBalance[bounties[id].solver] = BountyInitialBalance(bounties[id].solver) + 1
        /\ bountyBalance[bounties[id].creator]
                = BountyInitialBalance(bounties[id].creator) - 1
        /\ bountyBalance[BOUNTY] = 0

---------------------------------------------------------------------------
(* C18: cancel_bounty succeeds exactly for the bounty's creator on a bounty *)
(* that is Open, or Accepted or Submitted with the ledger time past its     *)
(* expiration; it then returns the whole amount to the creator and only     *)
(* sets the status to Cancelled; every other call is rejected and changes   *)
(* nothing.                                                                 *)

C18_CancelBounty ==
    \A id \in BountyIds, caller \in Address :
        LET b == bounties[id]
            out == cancel_bounty(caller, id)
        IN  IF /\ caller = b.creator
               /\ \/ b.status = "Open"
                  \/ b.status \in {"Accepted", "Submitted"} /\ now > b.expiration
            THEN /\ out.err = "Ok"
                 /\ out.bounties = [bounties EXCEPT ![id].status = "Cancelled"]
                 /\ BountyReceived(out, b.creator) = b.amount
                 /\ BountyReceived(out, BOUNTY) = -b.amount
            ELSE BountyRejectedCall(out)

\* a bounty cancelled after it expired in the hands of a solver
C18_Witness ==
    \E id \in BountyIds :
        /\ bounties[id].status = "Cancelled"
        /\ bounties[id].solver # NoAddress
        /\ now > bounties[id].expiration

---------------------------------------------------------------------------
(* C19: the tokens the bounty contract holds are the sum of amount over the *)
(* bounties that are Open, Accepted, Submitted or Disputed.                 *)

RECURSIVE BountyCustody(_)
BountyCustody(ids) ==
    IF ids = {} THEN 0
    ELSE LET id == CHOOSE x \in ids : TRUE
         IN  (IF InCustody(bounties[id]) THEN bounties[id].amount ELSE 0)
                + BountyCustody(ids \ {id})

C19_BountyCustody == bountyBalance[BOUNTY] = BountyCustody(BountyIds)

---------------------------------------------------------------------------
(* C20: get_active_bounties(0, limit) with limit at least the number of     *)
(* bounties created is the list, in id order, of the bounties that are      *)
(* Open, Accepted or Submitted; get_active_bounties(offset, limit) is that  *)
(* list for the ids offset + 1 .. offset + limit.                           *)

RECURSIVE ActiveAmong(_, _)
ActiveAmong(from, to) ==
    IF from > to THEN <<>>
    ELSE (IF from \in BountyIds /\ bounties[from].status \in {"Open", "Accepted", "Submitted"}
          THEN <<bounties[from]>> ELSE <<>>) \o ActiveAmong(from + 1, to)

C20_ActiveBounties ==
    /\ \A limit \in Limits :
          limit >= get_bounty_count
              => get_active_bounties(0, limit) = ActiveAmong(1, get_bounty_count)
    /\ \A offset \in Offsets, limit \in Limits :
          get_active_bounties(offset, limit) = ActiveAmong(offset + 1, offset + limit)

---------------------------------------------------------------------------
(* Shorthand for the match contract *)

MatchIds == DOMAIN matches

MatchLeftUnchanged(out) ==
    /\ out.matches = matches
    /\ out.matchCounter = matchCounter
    /\ out.matchBalance = matchBalance

MatchRejectedCall(out) == out.err # "Ok" /\ MatchLeftUnchanged(out)

\* tokens an outcome of the match contract credits to address a
MatchReceived(out, a) == out.matchBalance[a] - matchBalance[a]

RejectedCall(out) == out.err # "Ok" /\ LeftUnchanged(out)

---------------------------------------------------------------------------
(* C13: while an agreement is Disputed no call but the resolution of the    *)
(* dispute changes it or moves tokens.  For a Disputed escrow deposit,      *)
(* approve, release, refund_timeout and dispute are rejected; for a         *)
(* Disputed bounty accept_bounty, submit_solution, approve_submission,      *)
(* cancel_bounty and dispute_bounty; for a Disputed match join_match,       *)
(* leave_match, submit_commit, reveal_result, raise_dispute, evaluate_match *)
(* and handle_timeout; and the calls that are not made on the agreement     *)
(* (creations, initialize) leave it as it is stored.                        *)

C13_DisputedEscrow ==
    \A id \in Stored :
        escrows[id].state = "Disputed" =>
            /\ \A a \in Address, amount \in DepositAmounts : RejectedCall(deposit(a, id, amount))
            /\ \A a \in Address : RejectedCall(approve(a, id))
            /\ \A a \in Address, pa \in PartialAmounts : RejectedCall(release(a, id, pa))
            /\ RejectedCall(refund_timeout(id))
            /\ \A a \in Address : RejectedCall(dispute(a, id))
            /\ \A creator \in Creators, args \in CreateArgs, timeout \in TimeoutValues :
                  LET out == create_escrow(creator, args[1], args[2], args[3], args[4], timeout)
                  IN  out.escrows[id] = escrows[id] /\ out.balance = balance

C13_DisputedBounty ==
    \A id \in BountyIds :
        bounties[id].status = "Disputed" =>
            /\ \A a \in Address : BountyRejectedCall(accept_bounty(a, id))
            /\ \A a \in Address : BountyRejectedCall(submit_solution(a, id))
            /\ \A a \in Address : BountyRejectedCall(approve_submission(a, id))
            /\ \A a \in Address : BountyRejectedCall(cancel_bounty(a, id))
            /\ \A a \in Address : BountyRejectedCall(dispute_bounty(a, id))
            /\ \A adm \in Admins : initialize(adm).bounties[id] = bounties[id]
            /\ \A creator \in BountyCreators, amount \in BountyAmounts, duration \in Durations :
                  create_bounty(creator, amount, duration).bounties[id] = bounties[id]

C13_DisputedMatch ==
    \A id \in MatchIds :
        matches[id].status = "Disputed" =>
            /\ \A a \in Address : MatchRejectedCall(join_match(id, a))
            /\ \A a \in Address : MatchRejectedCall(leave_match(id, a))
            /\ \A a \in Address : \A h \in CommitHashes(a) :
                  MatchRejectedCall(submit_commit(id, a, h))
            /\ \A a \in Address, score \in Scores, secret \in Secrets :
                  MatchRejectedCall(reveal_result(id, a, score, secret))
            /\ \A a \in Address, d \in Address : MatchRejectedCall(raise_dispute(id, a, d))
            /\ MatchRejectedCall(evaluate_match(id))
            /\ MatchRejectedCall(handle_timeout(id))
            /\ \A creator \in MatchCreators, args \in MatchArgs :
                  create_match(creator, args[1], args[2], args[3], args[4], args[5], args[6])
                        .matches[id] = matches[id]

C13_DisputedOnlyResolved ==
    /\ C13_DisputedEscrow
    /\ C13_DisputedBounty
    /\ C13_DisputedMatch

---------------------------------------------------------------------------
(* C15: an equal split of an amount A >= 0 among N recipients pays each of  *)
(* them floor(A/N) and takes N * floor(A/N) <= A from the contract, the     *)
(* remainder A mod N staying there: for the escrow's release of A and its   *)
(* dispute resolution by Release among the N parties, and for the match's   *)
(* evaluation of the pot among the N winners.                               *)

EqualSplit(A, N, received, spent) ==
    /\ \A i \in 1..N : received[i] = A \div N
    /\ spent = N * (A \div N)
    /\ spent <= A
    /\ A - spent = A % N

C15_EscrowSplit ==
    \A id \in Stored, a \in Address :
        LET e == escrows[id]
            N == Len(e.parties)
        IN  /\ \A pa \in PartialAmounts :
                  LET out == release(a, id, pa)
                  IN  (out.err = "Ok" /\ ReleaseAmount(e, pa) >= 0) =>
                        EqualSplit(ReleaseAmount(e, pa), N,
                                   [i \in 1..N |-> Received(out, e.parties[i])],
                                   -Received(out, CONTRACT))
            /\ LET out == resolve_dispute(a, id, "Release")
               IN  out.err = "Ok" =>
                        EqualSplit(TotalObligations(e), N,
                                   [i \in 1..N |-> Received(out, e.parties[i])],
                                   -Received(out, CONTRACT))

C15_MatchSplit ==
    \A id \in MatchIds :
        LET m == matches[id]
            out == evaluate_match(id)
            valid == {p \in DOMAIN m.results : p \notin DOMAIN m.resolved \/ m.resolved[p]}
            best == {p \in valid : \A q \in valid : m.results[q] <= m.results[p]}
        IN  (out.err = "Ok" /\ valid # {}) =>
                /\ \A p \in best : MatchReceived(out, p) = m.pot \div Cardinality(best)
                /\ \A p \in Address \ best : MatchReceived(out, p) = 0
                /\ -MatchReceived(out, MATCH) = Cardinality(best) * (m.pot \div Cardinality(best))
                /\ -MatchReceived(out, MATCH) <= m.pot
                /\ m.pot + MatchReceived(out, MATCH) = m.pot % Cardinality(best)

C15_EqualSplit == C15_EscrowSplit /\ C15_MatchSplit

\* a match whose pot of 3 was split between two winners, 1 token staying in the contract
C15_Witness ==
    \E id \in MatchIds :
        /\ matches[id].status = "Finished"
        /\ matches[id].pot = 0
        /\ Cardinality(Winners(matches[id])) = 2
        /\ Len(matches[id].players) = 3
        /\ matchBalance[MATCH] = 1

---------------------------------------------------------------------------
(* Shorthand for the properties of the reward vault *)

VaultLeftUnchanged(out) ==
    /\ out.vaultConfig = vaultConfig
    /\ out.vaults = vaults
    /\ out.vaultBalance = vaultBalance

VaultRejectedCall(out) == out.err # "Ok" /\ VaultLeftUnchanged(out)

\* tokens an outcome of the reward vault credits to address a
VaultReceived(out, a) == out.vaultBalance[a] - vaultBalance[a]

\* the outcome pays exactly payout, out of the vault, to recipient
VaultPays(out, recipient, payout) ==
    /\ out.ret = payout
    /\ \A a \in Address : VaultReceived(out, a) = (IF a = recipient THEN payout ELSE 0)
    /\ VaultReceived(out, VAULT) = -payout

\* floor(amount * bps / 10000) for amount >= 0: of a multiple of 10000 it is
\* the bps-fold of its ten-thousandth, of a small amount the quotient itself
FloorBps(amount, bps) ==
    IF amount % 10000 = 0 THEN (amount \div 10000) * bps ELSE (amount * bps) \div 10000

\* the bonuses the configuration lists for a lock period
ConfiguredBonus(lock_period) ==
    { get_config.lock_options[i].bonus_bps :
         i \in { k \in 1..Len(get_config.lock_options) :
                     get_config.lock_options[k].period = lock_period } }

---------------------------------------------------------------------------
(* C21: for every vault position, the lock period has exactly one           *)
(* configured bonus, and the preview and every successful withdraw_mature,  *)
(* distribute_mature_payout and claim_inheritance return and transfer       *)
(* amount + floor(amount * bonus / 10000) for that bonus; for 10,000,000 at *)
(* 1200 bps that is exactly 11,200,000.                                     *)

C21_MaturePayout ==
    \A owner \in DOMAIN vaults :
        LET v == vaults[owner] IN
        /\ Cardinality(ConfiguredBonus(v.lock_period)) = 1
        /\ \A bps \in ConfiguredBonus(v.lock_period) :
             LET payout == v.amount + FloorBps(v.amount, bps) IN
             /\ preview_mature_payout(owner) = payout
             /\ withdraw_mature(owner).err = "Ok"
                   => VaultPays(withdraw_mature(owner), owner, payout)
             /\ distribute_mature_payout(owner).err = "Ok"
                   => VaultPays(distribute_mature_payout(owner), owner, payout)
             /\ \A beneficiary \in Address :
                   claim_inheritance(beneficiary, owner).err = "Ok"
                      => VaultPays(claim_inheritance(beneficiary, owner), beneficiary, payout)
             /\ (v.amount = 10000000 /\ bps = 1200) => payout = 11200000

\* the owner that deposited its 10,000,000 at 1200 bps has been paid 11,200,000
\* and has no position left
C21_Witness ==
    /\ "p1" \notin DOMAIN vaults
    /\ vaultBalance["p1"] = 11200000

---------------------------------------------------------------------------
(* C22: the configured early penalty is at most 10000 bps, and every        *)
(* successful early_withdraw returns and transfers to the owner             *)
(* amount - floor(amount * early_withdraw_penalty_bps / 10000), without any *)
(* bonus, which lies between 0 and the deposited amount; a rejected         *)
(* early_withdraw changes nothing.                                          *)

C22_EarlyWithdrawPayout ==
    /\ Initialized =>
          /\ 0 <= get_config.early_withdraw_penalty_bps
          /\ get_config.early_withdraw_penalty_bps <= 10000
    /\ \A owner \in Address :
          LET out == early_withdraw(owner) IN
          IF out.err = "Ok"
          THEN LET v == vaults[owner]
                   payout == v.amount - FloorBps(v.amount, get_config.early_withdraw_penalty_bps)
               IN  /\ VaultPays(out, owner, payout)
                   /\ 0 <= out.ret /\ out.ret <= v.amount
          ELSE VaultLeftUnchanged(out)

\* the owner that deposited its 10,000,000 has left early under the penalty of
\* 1000 bps: it holds 9,000,000 and has no position
C22_Witness ==
    /\ "p1" \notin DOMAIN vaults
    /\ vaultBalance["p1"] = 9000000
    /\ vaultBalance[VAULT] >= 1000000

---------------------------------------------------------------------------
(* C23: every successful exit (withdraw_mature, distribute_mature_payout,   *)
(* early_withdraw, emergency_withdraw, claim_inheritance) removes the       *)
(* owner's position and no other; while an owner has no position every exit *)
(* for that owner is rejected; while it has one, every deposit by that      *)
(* owner is rejected; and only deposit creates a position.                  *)

\* the outcomes of the exit calls for an owner
ExitOutcomes(owner) ==
    { withdraw_mature(owner), distribute_mature_payout(owner),
      early_withdraw(owner), emergency_withdraw(owner) }
        \cup { claim_inheritance(beneficiary, owner) : beneficiary \in Address }

C23_ExitRemovesPosition ==
    \A owner \in Address :
        /\ \A out \in ExitOutcomes(owner) :
              IF out.err = "Ok"
              THEN /\ owner \in DOMAIN vaults
                   /\ out.vaults = [o \in DOMAIN vaults \ {owner} |-> vaults[o]]
              ELSE VaultLeftUnchanged(out)
        /\ owner \notin DOMAIN vaults =>
              \A out \in ExitOutcomes(owner) : VaultRejectedCall(out)
        /\ owner \in DOMAIN vaults =>
              \A amount \in {-1, 0, 15, 10000000}, lock_period \in LockPeriods :
                  VaultRejectedCall(vault_deposit(owner, amount, lock_period))
        /\ \A a \in Address, p \in LockPeriods :
              /\ DOMAIN set_beneficiary(owner, a).vaults = DOMAIN vaults
              /\ DOMAIN extend_lock(owner, p).vaults = DOMAIN vaults

\* the owner that was paid 11,200,000 for its first position has deposited
\* 10,000,000 again
C23_Witness ==
    /\ "p1" \in DOMAIN vaults
    /\ vaults["p1"].deposited_at > 0
    /\ vaultBalance["p1"] = 1200000

---------------------------------------------------------------------------
(* C24: extend_lock on a position that has not matured, with a positive     *)
(* additional period whose sum with the position's lock period is a         *)
(* configured option, adds the additional period to maturity_at, sets       *)
(* lock_period to the sum and bonus_bps to that option's bonus, and changes *)
(* nothing else; every other extend_lock is rejected and changes nothing.   *)

C24_ExtendLock ==
    \A owner \in Address, additional \in LockPeriods :
        LET out == extend_lock(owner, additional) IN
        IF /\ owner \in DOMAIN vaults
           /\ now < vaults[owner].maturity_at
           /\ additional > 0
           /\ ConfiguredBonus(vaults[owner].lock_period + additional) # {}
        THEN LET v == vaults[owner]
                 w == out.vaults[owner]
             IN  /\ out.err = "Ok"
                 /\ w.maturity_at = v.maturity_at + additional
                 /\ w.lock_period = v.lock_period + additional
                 /\ ConfiguredBonus(w.lock_period) = {w.bonus_bps}
                 /\ w.amount = v.amount
                 /\ w.deposited_at = v.deposited_at
                 /\ w.owner = v.owner /\ w.beneficiary = v.beneficiary
                 /\ DOMAIN out.vaults = DOMAIN vaults
                 /\ \A o \in DOMAIN vaults \ {owner} : out.vaults[o] = vaults[o]
                 /\ out.vaultConfig = vaultConfig
                 /\ out.vaultBalance = vaultBalance
        ELSE VaultRejectedCall(out)

\* a position locked for 1 at 500 bps that its owner extends by 1, to the
\* option of 2 at 1200 bps
C24_Witness ==
    \E owner \in DOMAIN vaults :
        /\ vaults[owner].lock_period = 1
        /\ vaults[owner].bonus_bps = 500
        /\ extend_lock(owner, 1).err = "Ok"
        /\ extend_lock(owner, 1).vaults[owner].lock_period = 2
        /\ extend_lock(owner, 1).vaults[owner].bonus_bps = 1200
        /\ extend_lock(owner, 1).vaults[owner].maturity_at = vaults[owner].maturity_at + 1

---------------------------------------------------------------------------
(* C25: claim_inheritance succeeds exactly when the owner has a position    *)
(* that has matured, the caller is the beneficiary recorded on it and the   *)
(* vault holds the payout; it then pays amount + bonus to the caller and    *)
(* removes the position.  Every other call (another caller, no beneficiary  *)
(* recorded, an unmatured position) is rejected and the position stays.     *)

C25_ClaimInheritance ==
    \A beneficiary \in Address, owner \in Address :
        LET out == claim_inheritance(beneficiary, owner) IN
        IF /\ owner \in DOMAIN vaults
           /\ vaults[owner].beneficiary = beneficiary
           /\ now >= vaults[owner].maturity_at
           /\ vaultBalance[VAULT] >= vaults[owner].amount
                    + FloorBps(vaults[owner].amount, vaults[owner].bonus_bps)
        THEN /\ out.err = "Ok"
             /\ VaultPays(out, beneficiary,
                          vaults[owner].amount
                              + FloorBps(vaults[owner].amount, vaults[owner].bonus_bps))
             /\ owner \notin DOMAIN out.vaults
        ELSE /\ VaultRejectedCall(out)
             /\ owner \in DOMAIN vaults => out.vaults[owner] = vaults[owner]

\* the beneficiary that is no owner and was minted nothing has been paid the
\* 10,000,000 of an owner with the bonus of 500 or 1200 bps
C25_Witness ==
    /\ vaultBalance["p3"] \in {10500000, 11200000}
    /\ "p1" \notin DOMAIN vaults

---------------------------------------------------------------------------
(* C26: initialize stores the emergency-unlock flag disabled;               *)
(* set_emergency_unlock sets it for the configured admin and is rejected    *)
(* for every other caller, and no other call changes the configuration;     *)
(* emergency_withdraw succeeds exactly when the owner has a position, the   *)
(* flag is enabled and the vault holds the payout, before and after         *)
(* maturity alike, and then pays                                            *)
(* amount - floor(amount * emergency_penalty_bps / 10000) to the owner.     *)

\* the outcomes of the calls other than initialize and set_emergency_unlock
OtherVaultOutcomes ==
    UNION { ExitOutcomes(owner) : owner \in Address }
      \cup { fund_bonus_pool(a, amount) : a \in Address, amount \in FundAmounts }
      \cup { vault_deposit(a, amount, p) :
                a \in Address, amount \in {-1, 0, 15, 10000000}, p \in LockPeriods }
      \cup { set_beneficiary(a, b) : a \in Address, b \in Address }
      \cup { extend_lock(a, p) : a \in Address, p \in LockPeriods }

C26_EmergencyWithdraw ==
    /\ \A adm \in Address, args \in VaultInitArgs :
          LET out == vault_initialize(adm, args[1], args[2], args[3], args[4]) IN
          out.err = "Ok" => /\ ~Initialized
                            /\ out.vaultConfig[1].admin = adm
                            /\ out.vaultConfig[1].emergency_unlock_enabled = FALSE
    /\ \A caller \in Address, enabled \in BOOLEAN :
          LET out == set_emergency_unlock(caller, enabled) IN
          IF Initialized /\ caller = get_config.admin
          THEN /\ out.err = "Ok"
               /\ out.vaultConfig = <<[get_config EXCEPT !.emergency_unlock_enabled = enabled]>>
          ELSE VaultRejectedCall(out)
    /\ \A out \in OtherVaultOutcomes : out.vaultConfig = vaultConfig
    /\ \A owner \in Address :
          LET out == emergency_withdraw(owner) IN
          IF /\ owner \in DOMAIN vaults
             /\ get_config.emergency_unlock_enabled
             /\ vaultBalance[VAULT] >= vaults[owner].amount
                    - FloorBps(vaults[owner].amount, get_config.emergency_penalty_bps)
          THEN /\ out.err = "Ok"
               /\ VaultPays(out, owner,
                            vaults[owner].amount
                               - FloorBps(vaults[owner].amount, get_config.emergency_penalty_bps))
          ELSE VaultRejectedCall(out)

\* with the flag enabled, the owner that deposited its 10,000,000 has left
\* under the emergency penalty of 2500 bps and holds 7,500,000
C26_Witness ==
    /\ Initialized
    /\ get_config.emergency_unlock_enabled
    /\ "p1" \notin DOMAIN vaults
    /\ vaultBalance["p1"] = 7500000

---------------------------------------------------------------------------
(* Shorthand for the properties of the achievement collection *)

SetIds == DOMAIN collection.sets

Mapped(achievement_id) == achievement_id \in DOMAIN collection.achToSet

Holds(player, achievement_id) ==
    /\ Mapped(achievement_id)
    /\ Contains(progress(player, collection.achToSet[achievement_id]), achievement_id)

\* the Completed marker of a player for a set
Credited(st, player, set_id) == GetOr(st.completed, <<player, set_id>>, FALSE)

\* the bonus points of the sets 1..n whose Completed marker the player has
RECURSIVE BonusDue(_, _)
BonusDue(player, n) ==
    IF n = 0 THEN 0
    ELSE BonusDue(player, n - 1)
           + (IF n \in SetIds /\ Credited(collection, player, n)
              THEN collection.sets[n].bonus_points ELSE 0)

CollectionRejectedCall(out) == out.err # "Ok" /\ out.collection = collection

\* every player's bonus equals the bonus points of the sets it is marked to
\* have completed, each counted once
BonusOncePerSet == \A player \in Players : bonus_of(player) = BonusDue(player, MaxSets + 1)

---------------------------------------------------------------------------
(* C27 as stated: every player's bonus counts each completed set once, and  *)
(* re-recording an owned achievement of a set the player has completed      *)
(* returns true and leaves bonus_of unchanged.                              *)

C27_RerecordLeavesBonus ==
    /\ BonusOncePerSet
    /\ \A player \in Players, achievement_id \in AchievementIds :
          (/\ Holds(player, achievement_id)
           /\ is_completed(player, collection.achToSet[achievement_id]))
             => LET out == record_achievement(player, achievement_id) IN
                /\ out.err = "Ok"
                /\ out.ret = TRUE
                /\ GetOr(out.collection.bonus, player, 0) = bonus_of(player)

(* C27 as amended: every player's bonus counts each set once; a successful  *)
(* record_achievement returns whether the player then holds the whole set,  *)
(* and adds the set's bonus points exactly when it returns true and the     *)
(* player's Completed marker for the set was not yet set, setting it; so    *)
(* re-recording an owned achievement of a completed set returns true, and   *)
(* leaves bonus_of unchanged once the completion has been credited.  No     *)
(* other call changes a bonus or a marker, and no marker is ever cleared.   *)

C27_BonusCreditedOnce ==
    /\ BonusOncePerSet
    /\ \A player \in Players, achievement_id \in AchievementIds :
          LET out == record_achievement(player, achievement_id) IN
          IF out.err # "Ok" THEN out.collection = collection
          ELSE LET set_id == collection.achToSet[achievement_id]
                   set == collection.sets[set_id]
                   was == Credited(collection, player, set_id)
               IN
               /\ out.ret = is_completed_internal(set,
                                GetOr(out.collection.progress, <<player, set_id>>, <<>>))
               /\ (Holds(player, achievement_id) /\ is_completed(player, set_id))
                     => out.ret = TRUE
               /\ GetOr(out.collection.bonus, player, 0)
                     = bonus_of(player)
                         + (IF out.ret /\ ~was THEN set.bonus_points ELSE 0)
               /\ Credited(out.collection, player, set_id) = (was \/ out.ret)
               /\ \A p \in Players, s \in SetIds :
                     <<p, s>> # <<player, set_id>>
                        => Credited(out.collection, p, s) = Credited(collection, p, s)
               /\ \A p \in Players \ {player} :
                     GetOr(out.collection.bonus, p, 0) = bonus_of(p)
    /\ \A from \in Players, to \in Players, achievement_id \in AchievementIds :
          LET out == transfer_progress(from, to, achievement_id) IN
          /\ out.collection.bonus = collection.bonus
          /\ out.collection.completed = collection.completed
    /\ \A set_id \in 1..(MaxSets + 1), achievement_id \in AchievementIds :
          LET out == add_achievement_to_set(set_id, achievement_id) IN
          /\ out.collection.bonus = collection.bonus
          /\ out.collection.completed = collection.completed

\* a player that has been credited the 100 points of a set of two achievements
\* and holds both: re-recording one returns true and leaves the bonus at 100
C27_Witness ==
    \E player \in Players, set_id \in SetIds :
        /\ Credited(collection, player, set_id)
        /\ bonus_of(player) = 100
        /\ Len(collection.sets[set_id].achievements) >= 2
        /\ is_completed(player, set_id)
        /\ LET out == record_achievement(player, collection.sets[set_id].achievements[1])
           IN  out.err = "Ok" /\ out.ret = TRUE /\ out.collection = collection

---------------------------------------------------------------------------
(* C28: for an achievement of a set with limited cap c, the global claim    *)
(* count and the number of players holding the achievement never exceed c;  *)
(* record_achievement by a player that does not hold it is rejected when    *)
(* the count has reached c and otherwise raises the count by one; a         *)
(* re-recording by a holder and transfer_progress leave the count alone,    *)
(* and a holder can still transfer it to another player at the cap.         *)

ClaimCount(st, achievement_id) == GetOr(st.achCount, achievement_id, 0)

Holders(achievement_id) == { p \in Players : Holds(p, achievement_id) }

C28_LimitedCap ==
    \A achievement_id \in AchievementIds :
        (/\ Mapped(achievement_id)
         /\ collection.sets[collection.achToSet[achievement_id]].limited_cap.some)
          => LET c == collection.sets[collection.achToSet[achievement_id]].limited_cap.val
                 n == ClaimCount(collection, achievement_id)
             IN
             /\ n <= c
             /\ Cardinality(Holders(achievement_id)) <= c
             /\ \A player \in Players :
                   LET out == record_achievement(player, achievement_id) IN
                   IF Holds(player, achievement_id)
                   THEN out.err = "Ok" /\ ClaimCount(out.collection, achievement_id) = n
                   ELSE IF n >= c THEN CollectionRejectedCall(out)
                   ELSE /\ out.err = "Ok"
                        /\ ClaimCount(out.collection, achievement_id) = n + 1
             /\ \A from \in Players, to \in Players :
                   LET out == transfer_progress(from, to, achievement_id) IN
                   /\ out.collection.achCount = collection.achCount
                   /\ Holds(from, achievement_id) => out.err = "Ok"

\* the one claim of an achievement capped at 1 was made by p1, which was
\* credited the set; p2 holds the achievement now, received by transfer, and a
\* new claim by p1 is rejected
C28_Witness ==
    \E achievement_id \in AchievementIds :
        /\ Mapped(achievement_id)
        /\ collection.sets[collection.achToSet[achievement_id]].limited_cap = SomeCap(1)
        /\ ClaimCount(collection, achievement_id) = 1
        /\ Credited(collection, "p1", collection.achToSet[achievement_id])
        /\ Holders(achievement_id) = {"p2"}
        /\ record_achievement("p1", achievement_id).err = "limited cap reached"

---------------------------------------------------------------------------
(* C29 as stated: transfer_progress(from, to, a) is rejected unless from    *)
(* holds a; on success from no longer holds a, to holds a exactly once, and *)
(* the progress of every other player and of every other achievement is     *)
(* unchanged.                                                               *)

\* the progress an outcome stores for a player in a set
ProgressIn(st, player, set_id) == GetOr(st.progress, <<player, set_id>>, <<>>)

Occurrences(s, x) == Cardinality({ i \in 1..Len(s) : s[i] = x })

\* what every successful transfer of achievement_id of set set_id leaves alone:
\* the progress of the players other than from and to, the progress in the other
\* sets, the other achievements of from and of to, and everything but progress
TransferFrame(out, from, to, achievement_id, set_id) ==
    /\ \A p \in Players, s \in SetIds :
          (p \notin {from, to} \/ s # set_id)
             => ProgressIn(out.collection, p, s) = progress(p, s)
    /\ \A p \in {from, to} :
          Without(ProgressIn(out.collection, p, set_id), achievement_id)
             = Without(progress(p, set_id), achievement_id)
    /\ [out.collection EXCEPT !.progress = collection.progress] = collection

C29_TransferMoves ==
    \A from \in Players, to \in Players, achievement_id \in AchievementIds :
        LET out == transfer_progress(from, to, achievement_id) IN
        IF ~Holds(from, achievement_id) THEN CollectionRejectedCall(out)
        ELSE LET set_id == collection.achToSet[achievement_id] IN
             /\ out.err = "Ok"
             /\ Occurrences(ProgressIn(out.collection, from, set_id), achievement_id) = 0
             /\ Occurrences(ProgressIn(out.collection, to, set_id), achievement_id) = 1
             /\ TransferFrame(out, from, to, achievement_id, set_id)

(* C29 as amended: transfer_progress(from, to, a) is rejected unless from   *)
(* holds a; on success to holds a exactly once and, when to is another      *)
(* player than from, from no longer holds a (a transfer to oneself leaves   *)
(* the player holding a); the progress of every other player and of every   *)
(* other achievement is unchanged.                                          *)

C29_TransferMovesToOther ==
    \A from \in Players, to \in Players, achievement_id \in AchievementIds :
        LET out == transfer_progress(from, to, achievement_id) IN
        IF ~Holds(from, achievement_id) THEN CollectionRejectedCall(out)
        ELSE LET set_id == collection.achToSet[achievement_id] IN
             /\ out.err = "Ok"
             /\ from # to =>
                  Occurrences(ProgressIn(out.collection, from, set_id), achievement_id) = 0
             /\ Occurrences(ProgressIn(out.collection, to, set_id), achievement_id) = 1
             /\ TransferFrame(out, from, to, achievement_id, set_id)

\* p1 holds two achievements of a set, p2 holds one of them already and p3
\* holds progress of its own: p1 can transfer the one p2 holds to p2, which
\* then holds it once
C29_Witness ==
    \E set_id \in SetIds, a \in AchievementIds, b \in AchievementIds :
        /\ a # b
        /\ Holds("p1", a) /\ Holds("p1", b) /\ Holds("p2", a)
        /\ collection.achToSet[a] = set_id /\ collection.achToSet[b] = set_id
        /\ \E s \in SetIds : progress("p3", s) # <<>>
        /\ LET out == transfer_progress("p1", "p2", a) IN
           /\ out.err = "Ok"
           /\ ProgressIn(out.collection, "p1", set_id) = <<b>>
           /\ Occurrences(ProgressIn(out.collection, "p2", set_id), a) = 1

---------------------------------------------------------------------------
(* C30: handle_timeout on a match that is Open, past its join deadline and  *)
(* short of min_players succeeds, leaves the match Abandoned with a stored  *)
(* pot of 0 and refunds every joined player exactly the entry fee; on an    *)
(* Abandoned match handle_timeout is rejected and refunds nothing.          *)

C30_TimeoutAbandons ==
    \A id \in MatchIds :
        LET m == matches[id]
            out == handle_timeout(id)
        IN  /\ (/\ m.status = "Open"
                /\ now > m.join_deadline
                /\ Len(m.players) < m.min_players)
                  => /\ out.err = "Ok"
                     /\ out.matches[id].status = "Abandoned"
                     /\ \A a \in Address :
                           MatchReceived(out, a)
                              = (IF Contains(m.players, a) THEN m.entry_fee ELSE 0)
                     /\ out.matches[id].pot = 0
            /\ m.status = "Abandoned" => MatchRejectedCall(out)

---------------------------------------------------------------------------
(* C31: evaluate_match succeeds on a Finished match, and on a match in      *)
(* Reveal whose reveal deadline has passed.  With at least one valid        *)
(* revealed score it pays floor(pot/k) to each of the k players tied for    *)
(* the highest valid score and nothing to anyone else, and stores the match *)
(* as Finished with pot 0; with no valid result it pays every player the    *)
(* entry fee back and stores the match as Abandoned with pot 0.             *)

\* the players whose revealed score stands: no verdict against it
StandingScores(m) ==
    {p \in DOMAIN m.results : ~(p \in DOMAIN m.resolved /\ ~m.resolved[p])}

\* of these, the players no other one beats
TopScorers(m) ==
    {p \in StandingScores(m) : ~\E q \in StandingScores(m) : m.results[q] > m.results[p]}

Evaluable(m) ==
    \/ m.status = "Finished"
    \/ m.status = "Reveal" /\ now > m.reveal_deadline

C31_EvaluatePaysTopScorers ==
    \A id \in MatchIds :
        LET m == matches[id]
            out == evaluate_match(id)
            k == Cardinality(TopScorers(m))
        IN  /\ Evaluable(m) => out.err = "Ok"
            /\ (out.err = "Ok" /\ StandingScores(m) # {}) =>
                  /\ \A a \in Address :
                        MatchReceived(out, a)
                            = (IF a \in TopScorers(m) THEN m.pot \div k ELSE 0)
                  /\ out.matches[id] = [m EXCEPT !.pot = 0, !.status = "Finished"]
            /\ (out.err = "Ok" /\ StandingScores(m) = {}) =>
                  /\ \A a \in Address :
                        MatchReceived(out, a)
                            = (IF Contains(m.players, a) THEN m.entry_fee ELSE 0)
                  /\ out.matches[id] = [m EXCEPT !.pot = 0, !.status = "Abandoned"]
            /\ out.err = "Ok" =>
                  \A other \in MatchIds \ {id} : out.matches[other] = matches[other]

\* an evaluated match of three players in which one player's score of 2 beat
\* another's score of 1, and the pot of 3 went to that player alone
C31_Witness ==
    \E id \in MatchIds :
        LET m == matches[id] IN
        /\ m.status = "Finished"
        /\ m.pot = 0
        /\ Len(m.players) = 3
        /\ \E w \in DOMAIN m.results, l \in DOMAIN m.results :
              /\ m.results[w] = 2
              /\ m.results[l] = 1
              /\ Winners(m) = {w}
              /\ matchBalance[w] = MatchInitialBalance + 2
              /\ matchBalance[l] = MatchInitialBalance - 1

---------------------------------------------------------------------------
(* C32: a match is paid out once.  The entry fees collected for a match are *)
(* entry_fee for each of its players.  An evaluate_match or handle_timeout  *)
(* call that moves tokens takes at most these fees from the contract and    *)
(* leaves the match settled (Abandoned, or Finished with pot 0); on a       *)
(* settled match neither call moves a token, so a second evaluate_match     *)
(* pays nothing; and the contract always holds the fees of every match that *)
(* is not settled yet, so no match is paid out of the fees of another.      *)

FeesCollected(m) == m.entry_fee * Len(m.players)

Settled(m) ==
    \/ m.status = "Abandoned"
    \/ m.status = "Finished" /\ m.pot = 0

\* the fees of the matches 1..n that are not settled
RECURSIVE UnsettledFees(_)
UnsettledFees(n) ==
    IF n = 0 THEN 0
    ELSE UnsettledFees(n - 1)
            + (IF n \in MatchIds /\ ~Settled(matches[n]) THEN FeesCollected(matches[n]) ELSE 0)

SettlementOutcomes(id) == {evaluate_match(id), handle_timeout(id)}

C32_SettledOnce ==
    /\ \A id \in MatchIds : \A out \in SettlementOutcomes(id) :
          LET m == matches[id] IN
          /\ Settled(m) => out.matchBalance = matchBalance
          /\ out.matchBalance # matchBalance =>
                /\ ~Settled(m)
                /\ Settled(out.matches[id])
                /\ -MatchReceived(out, MATCH) <= FeesCollected(m)
                /\ \A a \in Address : MatchReceived(out, a) >= 0
    /\ matchBalance[MATCH] >= UnsettledFees(matchCounter)

\* a match already paid out to its winners, on which evaluate_match succeeds
\* once more and pays nothing
C32_Witness ==
    \E id \in MatchIds :
        LET m == matches[id]
            out == evaluate_match(id)
        IN  /\ m.status = "Finished"
            /\ m.pot = 0
            /\ \E w \in Winners(m) : matchBalance[w] > MatchInitialBalance
            /\ out.err = "Ok"
            /\ out.matchBalance = matchBalance

---------------------------------------------------------------------------
(* C33: in the achievement NFT, after any sequence of mint, transfer and    *)
(* burn calls every existing token appears exactly once in the collection   *)
(* of its owner and in no other collection, and the collections hold        *)
(* existing tokens only; mint returns the ids 1, 2, ... in mint order (each *)
(* mint returns the id one above the last one assigned, and no other call   *)
(* assigns an id); total_supply is the number of existing tokens; and a     *)
(* transfer by an address that is not the token's owner is rejected with    *)
(* "Not the owner" and changes nothing.                                     *)

TokenIds == DOMAIN nft.achievements

SingleOwner ==
    /\ \A token_id \in TokenIds, user \in NftUsers :
          Occurrences(get_collection(user), token_id)
              = (IF user = owner_of(token_id) THEN 1 ELSE 0)
    /\ \A user \in DOMAIN nft.collections :
          /\ user \in NftUsers
          /\ \A i \in 1..Len(nft.collections[user]) : nft.collections[user][i] \in TokenIds

IdsInMintOrder ==
    /\ TokenIds \subseteq 1..(nft.nextTokenId - 1)
    /\ \A to \in NftUsers, puzzle_id \in PuzzleIds, metadata \in Metadata :
          LET out == mint(to, puzzle_id, metadata) IN
          /\ out.err = "Ok"
          /\ out.ret = nft.nextTokenId
          /\ out.nft.nextTokenId = out.ret + 1
          /\ DOMAIN out.nft.achievements = TokenIds \cup {out.ret}
          /\ out.nft.achievements[out.ret].owner = to
    /\ \A from \in NftUsers, to \in NftUsers, token_id \in 1..MaxTokens :
          transfer(from, to, token_id).nft.nextTokenId = nft.nextTokenId
    /\ \A token_id \in 1..MaxTokens : burn(token_id).nft.nextTokenId = nft.nextTokenId
    /\ \A adm \in NftAdmins : nft_initialize(adm).nft.nextTokenId = nft.nextTokenId

C33_SingleOwner ==
    /\ SingleOwner
    /\ IdsInMintOrder
    /\ total_supply = Cardinality(TokenIds)
    /\ \A from \in NftUsers, to \in NftUsers, token_id \in TokenIds :
          from # owner_of(token_id) =>
              LET out == transfer(from, to, token_id)
              IN  out.err = "Not the owner" /\ out.nft = nft

\* the end of test_nft_lifecycle: tokens 1 and 2 minted to p1, token 1
\* transferred to p2, token 2 burned
C33_Witness ==
    /\ nft.nextTokenId = 3
    /\ TokenIds = {1}
    /\ owner_of(1) = "p2"
    /\ get_collection("p2") = <<1>>
    /\ get_collection("p1") = <<>>
    /\ total_supply = 1

---------------------------------------------------------------------------
(* C34: a join_match call that brings the number of players to min_players  *)
(* stores the match in Submission, with the submission deadline counted     *)
(* from that call; a join that leaves it below min_players leaves it Open.  *)
(* On a match that is not Open every join_match and leave_match call is     *)
(* rejected with InvalidStatus and changes nothing, and no other call       *)
(* changes the players of such a match or its pot, except that settlement   *)
(* (evaluate_match) sets the pot to 0.                                      *)

\* the outcomes of the calls on match id other than join_match, leave_match
\* and evaluate_match, and of the creation of another match
PlayOutcomes(id) ==
    {submit_commit(id, a, h) : a \in Address, h \in UNION {CommitHashes(p) : p \in Address}}
    \cup {reveal_result(id, a, score, secret) : a \in Address, score \in Scores, secret \in Secrets}
    \cup {raise_dispute(id, a, d) : a \in Address, d \in Address}
    \cup {match_resolve_dispute(a, id, d, valid) : a \in Address, d \in Address, valid \in Validities}
    \cup {handle_timeout(id)}
    \cup {create_match(creator, args[1], args[2], args[3], args[4], args[5], args[6]) :
            creator \in MatchCreators, args \in MatchArgs}

C34_StartFreezesPlayers ==
    \A id \in MatchIds :
        LET m == matches[id] IN
        /\ \A player \in Address :
              LET out == join_match(id, player) IN
              out.err = "Ok" =>
                  LET joined == out.matches[id] IN
                  /\ m.status = "Open"
                  /\ joined.players = Append(m.players, player)
                  /\ joined.pot = m.pot + m.entry_fee
                  /\ IF Len(joined.players) >= m.min_players
                     THEN /\ joined.status = "Submission"
                          /\ joined.submission_deadline = now + m.submission_duration
                     ELSE joined.status = "Open"
        /\ m.status # "Open" =>
              /\ \A player \in Address :
                    /\ join_match(id, player).err = "InvalidStatus"
                    /\ MatchLeftUnchanged(join_match(id, player))
                    /\ leave_match(id, player).err = "InvalidStatus"
                    /\ MatchLeftUnchanged(leave_match(id, player))
              /\ \A out \in PlayOutcomes(id) :
                    /\ out.matches[id].players = m.players
                    /\ out.matches[id].pot = m.pot
              /\ LET out == evaluate_match(id) IN
                    /\ out.matches[id].players = m.players
                    /\ out.matches[id].pot = (IF out.err = "Ok" THEN 0 ELSE m.pot)

\* a match started by its third player's join, with the fees of the three in
\* the pot, that a fourth address cannot join and no player can leave
C34_Witness ==
    \E id \in MatchIds :
        LET m == matches[id] IN
        /\ m.status = "Submission"
        /\ Len(m.players) = m.min_players
        /\ m.pot = 3 * m.entry_fee
        /\ m.submission_deadline = now + m.submission_duration
        /\ join_match(id, "arb").err = "InvalidStatus"
        /\ leave_match(id, m.players[2]).err = "InvalidStatus"

---------------------------------------------------------------------------
(* C35: whenever an escrow is Created, holds at least one deposit and its   *)
(* timeout has passed, some call on it succeeds and returns to every        *)
(* address exactly what that address deposited.                             *)

\* what address a has deposited into escrow e
DepositedBy(e, a) ==
    SumSeq([i \in 1..Len(e.parties) |-> IF e.parties[i] = a THEN e.deposited[i] ELSE 0])

\* the outcomes of every call that can be made on escrow id
EscrowOutcomes(id) ==
    {deposit(a, id, amount) : a \in Address, amount \in DepositAmounts}
    \cup {approve(a, id) : a \in Address}
    \cup {release(a, id, pa) : a \in Address, pa \in PartialAmounts}
    \cup {dispute(a, id) : a \in Address}
    \cup {resolve_dispute(a, id, resolution) : a \in Address, resolution \in Resolutions}
    \cup {refund_timeout(id)}

C35_CreatedRecoverable ==
    \A id \in Stored :
        LET e == escrows[id] IN
        (e.state = "Created" /\ TotalDeposited(e) > 0 /\ now >= e.timeout) =>
            \E out \in EscrowOutcomes(id) :
                /\ out.err = "Ok"
                /\ \A a \in Address : Received(out, a) = DepositedBy(e, a)

---------------------------------------------------------------------------
(* C36: in every Open match the stored pot is entry_fee times the number of *)
(* players, the players are pairwise distinct, and there are at most        *)
(* max_players of them.                                                     *)

C36_OpenPotAndPlayers ==
    \A id \in MatchIds :
        LET m == matches[id] IN
        m.status = "Open" =>
            /\ m.pot = m.entry_fee * Len(m.players)
            /\ \A i \in 1..Len(m.players), j \in 1..Len(m.players) :
                  m.players[i] = m.players[j] => i = j
            /\ Len(m.players) <= m.max_players

---------------------------------------------------------------------------
(* C37: a match holds at most one dispute, raised by one player against one *)
(* other.  raise_dispute succeeds only on a match in Reveal and stores it   *)
(* as Disputed.  On a Disputed match the creator's resolve_dispute of the   *)
(* disputed player succeeds with either verdict and stores the match as     *)
(* Finished, with the verdict recorded and, for the verdict invalid, the    *)
(* player's result removed; anyone else's call is rejected.  Once a verdict *)
(* is recorded every resolve_dispute call is rejected and no call changes   *)
(* the verdict; a player ruled invalid has no result and is not among the   *)
(* winners evaluate_match pays.                                             *)

\* the outcomes of every call that can be made on match id
MatchOutcomes(id) ==
    PlayOutcomes(id)
    \cup {join_match(id, a) : a \in Address}
    \cup {leave_match(id, a) : a \in Address}
    \cup {evaluate_match(id)}

C37_OneDispute ==
    \A id \in MatchIds :
        LET m == matches[id] IN
        /\ Cardinality(DOMAIN m.disputes) <= 1
        /\ \A d \in DOMAIN m.disputes : Len(m.disputes[d]) = 1
        /\ DOMAIN m.resolved \subseteq DOMAIN m.disputes
        /\ \A a \in Address, d \in Address :
              LET out == raise_dispute(id, a, d) IN
              /\ m.status # "Reveal" => out.err = "InvalidStatus" /\ MatchLeftUnchanged(out)
              /\ out.err = "Ok" =>
                    /\ out.matches[id].status = "Disputed"
                    /\ out.matches[id].disputes = (d :> <<a>>)
        /\ m.status = "Disputed" =>
              /\ DOMAIN m.resolved = {}
              /\ \A d \in DOMAIN m.disputes, valid \in Validities, caller \in Address :
                    LET out == match_resolve_dispute(caller, id, d, valid) IN
                    IF caller = m.creator
                    THEN /\ out.err = "Ok"
                         /\ out.matches[id].status = "Finished"
                         /\ out.matches[id].resolved = (d :> valid)
                         /\ DOMAIN out.matches[id].results
                                = (IF valid THEN DOMAIN m.results ELSE DOMAIN m.results \ {d})
                    ELSE MatchRejectedCall(out)
        /\ DOMAIN m.resolved # {} =>
              /\ m.status \in {"Finished", "Abandoned"}
              /\ \A d \in Address, valid \in Validities, caller \in Address :
                    MatchRejectedCall(match_resolve_dispute(caller, id, d, valid))
              /\ \A out \in MatchOutcomes(id) : out.matches[id].resolved = m.resolved
        /\ \A d \in DOMAIN m.resolved :
              ~m.resolved[d] =>
                  /\ d \notin DOMAIN m.results
                  /\ d \notin Winners(m)
                  /\ LET out == evaluate_match(id) IN
                     (out.err = "Ok" /\ out.matches[id].status = "Finished") =>
                        MatchReceived(out, d) = 0

\* a match Finished by the verdict that rules its one disputed player
\* invalid, whose revealed result is gone while another player's stands
C37_Witness ==
    \E id \in MatchIds :
        LET m == matches[id] IN
        /\ m.status = "Finished"
        /\ m.pot > 0
        /\ \E d \in DOMAIN m.resolved :
              /\ ~m.resolved[d]
              /\ d \in DOMAIN m.commits
              /\ d \notin DOMAIN m.results
              /\ Winners(m) # {}

---------------------------------------------------------------------------
(* C38: every stored vault position has maturity_at = deposited_at +        *)
(* lock_period.  While now < maturity_at its withdraw_mature,               *)
(* distribute_mature_payout and claim_inheritance are rejected ("Vault not  *)
(* matured") and early_withdraw is not refused; once now >= maturity_at     *)
(* early_withdraw is rejected ("Vault already matured") and the mature exit *)
(* is not refused: at every ledger time the clock admits exactly one of the *)
(* two, and that one succeeds whenever the vault holds its payout.          *)

MatureExits(owner) ==
    { withdraw_mature(owner), distribute_mature_payout(owner) }
        \cup { claim_inheritance(beneficiary, owner) : beneficiary \in Address }

\* the exit is let through by every check and pays if the vault holds the payout
Admitted(out, payout) ==
    IF vaultBalance[VAULT] >= payout THEN out.err = "Ok" ELSE out.err = "TransferTrap"

C38_OneRegularExit ==
    \A owner \in DOMAIN vaults :
        LET vault == vaults[owner]
            early_payout == vault.amount
                              - FloorBps(vault.amount, get_config.early_withdraw_penalty_bps)
            mature_payout == vault.amount + FloorBps(vault.amount, vault.bonus_bps)
        IN  /\ vault.maturity_at = vault.deposited_at + vault.lock_period
            /\ IF now < vault.maturity_at
               THEN /\ \A out \in MatureExits(owner) :
                          out.err = "Vault not matured" /\ VaultLeftUnchanged(out)
                    /\ Admitted(early_withdraw(owner), early_payout)
               ELSE /\ early_withdraw(owner).err = "Vault already matured"
                    /\ VaultLeftUnchanged(early_withdraw(owner))
                    /\ Admitted(withdraw_mature(owner), mature_payout)
                    /\ Admitted(distribute_mature_payout(owner), mature_payout)
                    /\ \A beneficiary \in Address :
                          IF vault.beneficiary = beneficiary
                          THEN Admitted(claim_inheritance(beneficiary, owner), mature_payout)
                          ELSE claim_inheritance(beneficiary, owner).err = "Not beneficiary"

\* a position locked for 2 since time 0, at time 1: of the two regular exits
\* the early one only; and another position that has matured
C38_Witness ==
    /\ now = 1
    /\ \E owner \in DOMAIN vaults :
          /\ vaults[owner].deposited_at = 0
          /\ vaults[owner].lock_period = 2
          /\ vaults[owner].maturity_at = 2
          /\ early_withdraw(owner).err = "Ok"
          /\ withdraw_mature(owner).err = "Vault not matured"
    /\ \E owner \in DOMAIN vaults :
          /\ vaults[owner].maturity_at = 1
          /\ early_withdraw(owner).err = "Vault already matured"
          /\ withdraw_mature(owner).err = "Ok"

---------------------------------------------------------------------------
(* C39: the token balance of the reward vault is at least the sum of amount *)
(* over all open vault positions.                                           *)

\* the sum of amount over the positions of the owners in the set
RECURSIVE Principal(_)
Principal(owners) ==
    IF owners = {} THEN 0
    ELSE LET owner == CHOOSE o \in owners : TRUE
         IN  vaults[owner].amount + Principal(owners \ {owner})

C39_PrincipalsCovered ==
    vaultBalance[VAULT] >= Principal(DOMAIN vaults)

---------------------------------------------------------------------------
(* C40: the status of a stored bounty changes only along Open -> Accepted   *)
(* -> Submitted -> Completed, from Open, Accepted or Submitted to           *)
(* Cancelled, and from Accepted or Submitted to Disputed and on to          *)
(* Completed, so that Completed and Cancelled are never left, whichever     *)
(* call is made.  accept_bounty is rejected after the expiration and on a   *)
(* bounty that is not Open; the solver it stores is changed by no later     *)
(* call, and submit_solution succeeds for that solver only;                 *)
(* approve_submission succeeds for the creator only and dispute_bounty for  *)
(* the creator or the solver only.                                          *)

StatusSteps ==
    { <<"Open", "Accepted">>, <<"Accepted", "Submitted">>, <<"Submitted", "Completed">>,
      <<"Open", "Cancelled">>, <<"Accepted", "Cancelled">>, <<"Submitted", "Cancelled">>,
      <<"Accepted", "Disputed">>, <<"Submitted", "Disputed">>, <<"Disputed", "Completed">> }

\* the outcomes of every call of the bounty contract, those on bounty id by
\* every caller and the creations and initialisations
BountyOutcomes(id) ==
    {accept_bounty(a, id) : a \in Address}
    \cup {submit_solution(a, id) : a \in Address}
    \cup {approve_submission(a, id) : a \in Address}
    \cup {cancel_bounty(a, id) : a \in Address}
    \cup {dispute_bounty(a, id) : a \in Address}
    \cup {bounty_resolve_dispute(a, id, solver_payout) : a \in Address, solver_payout \in SolverPayouts}
    \cup {initialize(adm) : adm \in Admins}
    \cup {create_bounty(creator, amount, duration) :
            creator \in BountyCreators, amount \in BountyAmounts, duration \in Durations}

C40_StatusMachine ==
    \A id \in BountyIds :
        LET b == bounties[id] IN
        /\ \A out \in BountyOutcomes(id) :
              LET after == out.bounties[id] IN
              /\ after.status = b.status \/ <<b.status, after.status>> \in StatusSteps
              /\ b.status # "Open" => after.solver = b.solver
        /\ \A a \in Address :
              /\ (b.status # "Open" \/ now > b.expiration) =>
                    BountyRejectedCall(accept_bounty(a, id))
              /\ accept_bounty(a, id).err = "Ok" =>
                    accept_bounty(a, id).bounties[id].solver = a
              /\ a # b.solver => BountyRejectedCall(submit_solution(a, id))
              /\ a # b.creator => BountyRejectedCall(approve_submission(a, id))
              /\ a \notin {b.creator, b.solver} => BountyRejectedCall(dispute_bounty(a, id))

===========================================================================
